---- MODULE Spec2Model ----
(***************************************************************************)
(* Verification model of tiiuae/mission-data-recorder.                     *)
(*                                                                         *)
(* The module holds several specifications over one set of variables:      *)
(*   SpecQ   the upload queue alone (bagQueue driven through               *)
(*           container/heap by AddBag, nextBag and LoadExistingBags);      *)
(*   Spec    the upload manager with its workers, semaphore, the files on  *)
(*           disk, and the calls the config watcher and the recorder make  *)
(*           into it;                                                      *)
(*   SpecFS  Spec with a single recorder run, for the files on disk;       *)
(*   SpecCW  the config watcher's main loop, the subscription callback     *)
(*           and the writer process of missionDataRecorder.Start           *)
(*           (FairCW adds the fairness of the Go scheduler);               *)
(*   SpecRec the recorder's file watcher and notifyIfBagReady;             *)
(*   SpecMain run's three jobs, the root context and the deferred Wait;    *)
(*   SpecUp  one fileUploader.UploadBag call after another, with the       *)
(*           worker's cleanup decision;                                    *)
(*   SpecYaml the parsing of one config message by                         *)
(*           parseUpdatableConfigYAML, the recorder it configures and the  *)
(*           writer commands startRecorder spawns for it;                  *)
(*   SpecLock the sections of uploadManager.mutex, task by task;           *)
(*   SpecStart one missionDataRecorder.Start call: the writer process,     *)
(*           its signals and its exit status;                              *)
(*   SpecWC  fileUploader.WithCompression and the uploads in flight;       *)
(*   SpecPipe the uploader's pipe: the copying goroutine, Read and Close   *)
(*           (FairPipe adds the fairness of the Go scheduler).             *)
(* A specification leaves the variables of the other parts unchanged.      *)
(***************************************************************************)
EXTENDS Integers, Sequences, FiniteSets, Bags, TLC

\* ------------------------------------------------------------------ bounds
\* Highest segment number a bag of the queue specification carries.
MaxNumber == 2
\* Number of heap.Push calls made in one behaviour of the queue specification.
MaxPush == 3

\* Number of backlog segments a previous run may have left on disk.
MaxBacklog == 1
\* Highest segment number the writer creates in one recorder run.
MaxSeg == 1
\* Number of recorder runs (configs applied) in one behaviour.
MaxRuns == 2
\* Number of StartWorker goroutines spawned in one behaviour.
MaxWorkers == 3
\* Highest max_upload_count a config carries.
MaxPermits == 1

VARIABLES
    queue,      \* uploadManager.queue: the heap array, a sequence of bags
    pushes,     \* SpecQ: number of bags pushed or loaded so far
    popAll,     \* SpecQ: every bag returned by nextBag, in order
    popRun,     \* SpecQ: the bags returned by nextBag since the last push
    sems,       \* every semaphore.Weighted made so far, [size, cur]; the
                \* last one is uploadManager.workerCount
    workers,    \* the StartWorker goroutines running, a bag of their states
    spawned,    \* number of StartWorker goroutines started so far
    files,      \* the files under the destination directory
    dirs,       \* the per-run directories that exist
    outcome,    \* per bag path: none, inflight, or what uploadBag returned
    rehanded,   \* a bag was handed to uploadBag a second time
    runState,   \* where the config watcher's loop stands
    pending,    \* a config sits in nextConfig
    recCtx,     \* the recorder context w.stopRecorder cancels (0: none yet)
    recCancelled, \* the recorder contexts cancelled by stopRecording
    shutdown,   \* the root context is cancelled (SIGINT/SIGTERM)
    curDir,     \* missionDataRecorder.currentDir of the run
    seg,        \* the number of the next segment the writer creates
    crashed,    \* a goroutine panicked: the process is gone
    nextConfig, \* SpecCW: configWatcher.nextConfig, a channel of capacity 1
    currentConfig, \* SpecCW: Run's currentConfig
    runPc,      \* SpecCW: where the Run goroutine stands
    stopRecorder, \* SpecCW: the context w.stopRecorder cancels (0: nil)
    ctxCount,   \* SpecCW: number of recorder contexts made so far
    cancelled,  \* SpecCW: the recorder contexts cancelled so far
    done,       \* SpecCW: the context passed to Run is cancelled
    writers,    \* SpecCW: the writer processes alive, [ctx, cfg]
    exitErr,    \* SpecCW: what Start returns once the writer is gone
    retryTimerActive, \* SpecCW: configWatcher.retryTimerActive
    updPc,      \* SpecCW: where the subscription callback stands
    updConfig,  \* SpecCW: the config onUpdate is about to send
    sent,       \* SpecCW: number of config messages taken so far
    accepted,   \* SpecCW: the last config onUpdate parsed and accepted
    fails,      \* SpecCW: number of times the writer died on its own
    timer,      \* SpecCW: configWatcher.retryTimer and its channel C
    armedFor,   \* SpecCW: the recorder context whose failure armed the timer
    consumedAt, \* SpecCW: ctxCount when Run last took a config
    ready,      \* SpecRec: the bags handed to onBagReady, in order
    panicked,   \* SpecRec: newBagMetadata panicked
    nEvents,    \* SpecRec: number of create events handled
    lastName,   \* SpecRec: the file name of the last create event
    watching,   \* SpecRec: the watcher goroutine is in its loop
    called,     \* SpecRec: the onBagReady goroutines that have run, as
    watched,    \* SpecRec: the directory on the watch list: parent or current
    readyDir,   \* SpecRec: for each bag of ready, the directory of its event
                \* positions in ready, in the order they ran
    jobState,   \* SpecMain: per top-level job: running, stopped, done
    rootDone,   \* SpecMain: the context of signal.NotifyContext is cancelled
    signalled,  \* SpecMain: SIGINT or SIGTERM was received
    errs,       \* SpecMain: the results waiting in the channel errs
    jobOut,     \* SpecMain: what each job's function returned, or "panic"
    runErrs,    \* SpecMain: number of errors run has collected from errs
    received,   \* SpecMain: number of results run has taken from errs
    mainPc,     \* SpecMain: where run stands
    running,    \* SpecMain: number of upload workers running
    upVariant,  \* SpecUp: which reader UploadBag hands to uploadFile
    upMode,     \* SpecUp: fileUploader.CompressionMode
    upFile,     \* SpecUp: the segment file of the bag being uploaded
    upCtxDone,  \* SpecUp: the context given to UploadBag is cancelled
    upPc,       \* SpecUp: where the UploadBag call stands
    upName,     \* SpecUp: the object name sent in the token, as its extension
    upBody,     \* SpecUp: the bytes the PUT request carried
    upPosts,    \* SpecUp: POST requests sent by this call
    upPuts,     \* SpecUp: PUT requests sent by this call
    upResp,     \* SpecUp: the response to the POST
    upPutStatus,\* SpecUp: the status of the response to the PUT
    upResult,   \* SpecUp: what UploadBag returned
    upRemoved,  \* SpecUp: the worker called removeBagFiles for the bag
    upCalls,    \* SpecUp: number of UploadBag calls made
    yVariant,   \* SpecYaml: which compressionMode type the config struct has
    yMsg,       \* SpecYaml: the config message, as its decoded YAML values
    yPc,        \* SpecYaml: where onUpdate and the main loop stand with it
    yResult,    \* SpecYaml: what parseUpdatableConfigYAML returned
    yRecorder,  \* SpecYaml: whether the recorder runs, and its Topics
    yCount,     \* SpecYaml: the permit count the upload manager was given
    yMode,      \* SpecYaml: the compression mode its uploader was given
    ySpawned,   \* SpecYaml: the topic arguments of every writer spawned
    mutex,      \* SpecLock: the task holding uploadManager.mutex, or "none"
    lkPc,       \* SpecLock: where each task stands
    lkQueue,    \* SpecLock: uploadManager.queue
    lkSem,      \* SpecLock: number of semaphores made for workerCount
    lkActor,    \* SpecLock: the task that took the last step
    lkOps,      \* SpecLock: number of mutex sections entered so far
    lkMatches,  \* SpecLock: what the two globs of LoadExistingBags match
    stPc,       \* SpecStart: where missionDataRecorder.Start stands
    stCtxDone,  \* SpecStart: the context given to Start is cancelled
    stProc,     \* SpecStart: the writer process: none, running, exited
    stStatus,   \* SpecStart: its exit status (-1: ended by a signal)
    stReaped,   \* SpecStart: cmd.Wait has returned
    stSig,      \* SpecStart: the signals sent to the process, in order
    stG1,       \* SpecStart: the goroutine of exec.CommandContext
    stG2,       \* SpecStart: the stop goroutine of Start
    stStopped,  \* SpecStart: number of values in the channel stopped
    stStopErr,  \* SpecStart: the channel stopErr
    stResult,   \* SpecStart: what Start returned
    wcObjs,     \* SpecWC: the fileUploader objects made so far
    wcCur,      \* SpecWC: the uploader the upload manager holds, an index
    wcAsked,    \* SpecWC: the mode of the last SetConfig
    wcSets,     \* SpecWC: number of SetConfig calls made
    wcFlight,   \* SpecWC: the UploadBag calls started, each with its uploader
    ppVariant,  \* SpecPipe: which pipe of the uploader: early or later
    ppN,        \* SpecPipe: number of chunks the source holds
    ppFailAt,   \* SpecPipe: the read of the source that fails (0: none)
    ppPlan,     \* SpecPipe: what the consumer does with the pipe
    ppProd,     \* SpecPipe: where the copy goroutine stands
    ppCopied,   \* SpecPipe: chunks written through to the consumer
    ppErr,      \* SpecPipe: what io.Copy returned
    ppGzErr,    \* SpecPipe: the error the gzip writer keeps
    ppFlushed,  \* SpecPipe: the trailer of the compressor was read
    ppRClosed,  \* SpecPipe: pipeOut is closed
    ppW,        \* SpecPipe: pipeIn: open, or what it was closed with
    ppGot,      \* SpecPipe: number of Reads that returned data
    ppReadResult, \* SpecPipe: the error the consumer's last Read returned
    ppClose     \* SpecPipe: where pipe.Close stands

qvars == <<queue, pushes, popAll, popRun>>

umvars == <<sems, workers, spawned, files, dirs, outcome, rehanded, runState, pending,
            recCtx, recCancelled, shutdown, curDir, seg, crashed>>

cwvars == <<nextConfig, currentConfig, runPc, stopRecorder, ctxCount, cancelled, done,
            writers, exitErr, retryTimerActive, updPc, updConfig, sent, accepted,
            fails, timer, armedFor, consumedAt>>

recvars == <<ready, panicked, nEvents, lastName, watching, called, watched, readyDir>>

mainvars == <<jobState, rootDone, signalled, errs, received, mainPc, running,
              jobOut, runErrs>>

upvars == <<upVariant, upMode, upFile, upCtxDone, upPc, upName, upBody, upPosts,
            upPuts, upResp, upPutStatus, upResult, upRemoved, upCalls>>

vars == <<queue, pushes, popAll, popRun, sems, workers, spawned, files, dirs, outcome,
          rehanded, runState, pending, recCtx, recCancelled, shutdown, curDir,
          seg, crashed, nextConfig, currentConfig, runPc, stopRecorder, ctxCount,
          cancelled, done, writers, exitErr, retryTimerActive, updPc, updConfig,
          sent, accepted, fails, timer, armedFor, consumedAt, ready, panicked, nEvents, lastName, watching,
          called, watched, readyDir, jobState, rootDone, signalled, errs, received, mainPc, running,
          jobOut, runErrs,
          upVariant, upMode, upFile, upCtxDone, upPc, upName, upBody, upPosts,
          upPuts, upResp, upPutStatus, upResult, upRemoved, upCalls,
          yVariant, yMsg, yPc, yResult, yRecorder, yCount, yMode, ySpawned,
          mutex, lkPc, lkQueue, lkSem, lkActor, lkOps, lkMatches,
          stPc, stCtxDone, stProc, stStatus, stReaped, stSig, stG1, stG2, stStopped,
          stStopErr, stResult, wcObjs, wcCur, wcAsked, wcSets, wcFlight,
          ppVariant, ppN, ppFailAt, ppPlan, ppProd, ppCopied, ppErr, ppGzErr, ppFlushed,
          ppRClosed, ppW, ppGot, ppReadResult, ppClose>>

lkvars == <<mutex, lkPc, lkQueue, lkSem, lkActor, lkOps, lkMatches>>

stvars == <<stPc, stCtxDone, stProc, stStatus, stReaped, stSig, stG1, stG2, stStopped,
            stStopErr, stResult>>

wcvars == <<wcObjs, wcCur, wcAsked, wcSets, wcFlight>>

ppvars == <<ppVariant, ppN, ppFailAt, ppPlan, ppProd, ppCopied, ppErr, ppGzErr, ppFlushed,
            ppRClosed, ppW, ppGot, ppReadResult, ppClose>>

auxvars == <<lkvars, stvars, wcvars, ppvars>>

yamlvars == <<yVariant, yMsg, yPc, yResult, yRecorder, yCount, yMode, ySpawned>>

\* ------------------------------------------------------------- bagMetadata
\* A bag is its directory, its segment number and the isNew flag; the path
\* of the bag is <dir>/<dir>_<number>.db3, so (dir, number) identifies it.
\* The heap index field is bookkeeping of Swap/Push/Pop and is never read.
Bag(d, n, new) == [dir |-> d, number |-> n, isNew |-> new]

QDirs == {1, 2}

QBags == {Bag(d, n, new) : d \in QDirs, n \in 0..MaxNumber, new \in BOOLEAN}

\* ---------------------------------------------------------------- bagQueue
\* Indices are those of the Go slice (from 0); a[i + 1] is element i.

\* Less with the two classes compared the same way: a plausible slip.
LessSameDirection(a, i, j) ==
    LET x == a[i + 1]
        y == a[j + 1]
    IN  IF x.isNew /\ y.isNew THEN x.number < y.number
        ELSE IF ~x.isNew /\ ~y.isNew THEN x.number < y.number
        ELSE x.isNew

Less(a, i, j) ==
    LET x == a[i + 1]
        y == a[j + 1]
    IN  IF x.isNew /\ y.isNew THEN x.number > y.number
        ELSE IF ~x.isNew /\ ~y.isNew THEN x.number < y.number
        ELSE x.isNew

Swap(a, i, j) == [a EXCEPT ![i + 1] = a[j + 1], ![j + 1] = a[i + 1]]

\* container/heap.up: Go's (j - 1) / 2 truncates, so the parent of 0 is 0.
RECURSIVE heapUp(_, _)
heapUp(a, j) ==
    LET i == IF j = 0 THEN 0 ELSE (j - 1) \div 2
    IN  IF i = j \/ ~Less(a, j, i) THEN a
        ELSE heapUp(Swap(a, i, j), i)

\* container/heap.down over the first n elements.
RECURSIVE heapDown(_, _, _)
heapDown(a, i, n) ==
    LET j1 == 2 * i + 1
    IN  IF j1 >= n THEN a
        ELSE LET j2 == j1 + 1
                 j == IF j2 < n /\ Less(a, j2, j1) THEN j2 ELSE j1
             IN  IF ~Less(a, j, i) THEN a
                 ELSE heapDown(Swap(a, i, j), j, n)

\* heap.Push: bagQueue.Push appends, then up from the last index.
heapPush(a, x) == heapUp(Append(a, x), Len(a))

\* heap.Pop: swap first and last, down over the first n, bagQueue.Pop cuts
\* the last element off and returns it.
heapPopped(a) ==
    LET n == Len(a) - 1
    IN  heapDown(Swap(a, 0, n), 0, n)

RECURSIVE heapInitFrom(_, _)
heapInitFrom(a, i) ==
    IF i < 0 THEN a ELSE heapInitFrom(heapDown(a, i, Len(a)), i - 1)

\* heap.Init: down from n/2 - 1 to 0.
heapInit(a) == heapInitFrom(a, Len(a) \div 2 - 1)

\* nextBag: the bag returned (Nil for an empty queue) and the queue left.
\* The reallocation below a third of the capacity copies the elements and
\* changes no content.
Nil == [dir |-> 0, number |-> 0 - 1, isNew |-> FALSE]

nextBagResult(a) == IF Len(a) = 0 THEN Nil ELSE heapPopped(a)[Len(a)]

nextBagQueue(a) == IF Len(a) = 0 THEN a ELSE SubSeq(heapPopped(a), 1, Len(a) - 1)

\* ------------------------------------------------- SpecQ: the queue alone
\* The state of the parts a specification does not move.
UMIdle ==
    /\ sems = <<>>
    /\ workers = <<>>
    /\ spawned = 0
    /\ files = {}
    /\ dirs = {}
    /\ outcome = <<>>
    /\ rehanded = FALSE
    /\ runState = "off"
    /\ pending = FALSE
    /\ recCtx = 0
    /\ recCancelled = {}
    /\ shutdown = FALSE
    /\ curDir = 0
    /\ seg = 0
    /\ crashed = FALSE

\* A config: its number in the order of arrival (0: the initial config)
\* and whether it asks for recording (topics is not empty).
Config(k, rec) == [id |-> k, rec |-> rec]

CWIdle ==
    /\ nextConfig = <<>>
    /\ currentConfig = Config(0, FALSE)
    /\ runPc = "off"
    /\ stopRecorder = 0
    /\ ctxCount = 0
    /\ cancelled = {}
    /\ done = FALSE
    /\ writers = {}
    /\ exitErr = FALSE
    /\ retryTimerActive = FALSE
    /\ updPc = "off"
    /\ updConfig = Config(0, FALSE)
    /\ sent = 0
    /\ accepted = Config(0, FALSE)
    /\ fails = 0
    /\ timer = [running |-> FALSE, tick |-> FALSE]
    /\ armedFor = 0
    /\ consumedAt = 0

RecIdle ==
    /\ ready = <<>>
    /\ panicked = FALSE
    /\ nEvents = 0
    /\ lastName = <<>>
    /\ watching = FALSE
    /\ called = <<>>
    /\ watched = "none"
    /\ readyDir = <<>>

MainIdle ==
    /\ jobState = <<>>
    /\ rootDone = FALSE
    /\ signalled = FALSE
    /\ errs = <<>>
    /\ received = 0
    /\ mainPc = "off"
    /\ running = 0
    /\ jobOut = <<>>
    /\ runErrs = 0

UpIdle ==
    /\ upVariant = "off"
    /\ upMode = "none"
    /\ upFile = <<>>
    /\ upCtxDone = FALSE
    /\ upPc = "off"
    /\ upName = ""
    /\ upBody = <<>>
    /\ upPosts = 0
    /\ upPuts = 0
    /\ upResp = <<>>
    /\ upPutStatus = 0
    /\ upResult = "none"
    /\ upRemoved = FALSE
    /\ upCalls = 0

LkIdle ==
    /\ mutex = "none"
    /\ lkPc = <<>>
    /\ lkQueue = <<>>
    /\ lkSem = 0
    /\ lkActor = "none"
    /\ lkOps = 0
    /\ lkMatches = <<>>

StIdle ==
    /\ stPc = "off"
    /\ stCtxDone = FALSE
    /\ stProc = "none"
    /\ stStatus = 0
    /\ stReaped = FALSE
    /\ stSig = <<>>
    /\ stG1 = "off"
    /\ stG2 = "off"
    /\ stStopped = 0
    /\ stStopErr = <<>>
    /\ stResult = "none"

WcIdle ==
    /\ wcObjs = <<>>
    /\ wcCur = 0
    /\ wcAsked = "none"
    /\ wcSets = 0
    /\ wcFlight = <<>>

PpIdle ==
    /\ ppVariant = "off"
    /\ ppN = 0
    /\ ppFailAt = 0
    /\ ppPlan = "never"
    /\ ppProd = "off"
    /\ ppCopied = 0
    /\ ppErr = ""
    /\ ppGzErr = ""
    /\ ppFlushed = FALSE
    /\ ppRClosed = FALSE
    /\ ppW = "open"
    /\ ppGot = 0
    /\ ppReadResult = ""
    /\ ppClose = "no"

AuxIdle ==
    /\ LkIdle
    /\ StIdle
    /\ WcIdle
    /\ PpIdle

YamlIdle ==
    /\ yVariant = "off"
    /\ yMsg = <<>>
    /\ yPc = "off"
    /\ yResult = <<>>
    /\ yRecorder = <<>>
    /\ yCount = 0
    /\ yMode = "none"
    /\ ySpawned = <<>>

QIdle ==
    /\ queue = <<>>
    /\ pushes = 0
    /\ popAll = <<>>
    /\ popRun = <<>>

QInit ==
    /\ QIdle
    /\ UMIdle
    /\ CWIdle
    /\ RecIdle
    /\ MainIdle
    /\ UpIdle
    /\ YamlIdle
    /\ AuxIdle

\* The paths pushed so far: the queue holds no path twice during a run.
QSeen == {<<queue[i].dir, queue[i].number>> : i \in 1..Len(queue)}
             \cup {<<popAll[i].dir, popAll[i].number>> : i \in 1..Len(popAll)}

\* AddBag's heap.Push of one bag.
QPush(b) ==
    /\ pushes < MaxPush
    /\ <<b.dir, b.number>> \notin QSeen
    /\ queue' = heapPush(queue, b)
    /\ pushes' = pushes + 1
    /\ popRun' = <<>>
    /\ UNCHANGED <<popAll, umvars, cwvars, recvars, mainvars, upvars, yamlvars, auxvars>>

\* LoadExistingBags: addGlob appends the backlog bags, heap.Init orders them.
QLoad(b1, b2) ==
    /\ pushes + 2 <= MaxPush
    /\ ~b1.isNew /\ ~b2.isNew
    /\ <<b1.dir, b1.number>> \notin QSeen
    /\ <<b2.dir, b2.number>> \notin QSeen
    /\ <<b1.dir, b1.number>> # <<b2.dir, b2.number>>
    /\ queue' = heapInit(queue \o <<b1, b2>>)
    /\ pushes' = pushes + 2
    /\ popRun' = <<>>
    /\ UNCHANGED <<popAll, umvars, cwvars, recvars, mainvars, upvars, yamlvars, auxvars>>

\* nextBag on a non-empty queue.
QPop ==
    /\ Len(queue) > 0
    /\ queue' = nextBagQueue(queue)
    /\ popAll' = Append(popAll, nextBagResult(queue))
    /\ popRun' = Append(popRun, nextBagResult(queue))
    /\ UNCHANGED <<pushes, umvars, cwvars, recvars, mainvars, upvars, yamlvars, auxvars>>

QNext ==
    \/ \E b \in QBags : QPush(b)
    \/ \E b1, b2 \in QBags : QLoad(b1, b2)
    \/ QPop

SpecQ == QInit /\ [][QNext]_vars

\* The order a sequence of pops is claimed to have.
NewBeforeBacklog(s) ==
    \A i, j \in 1..Len(s) : (i < j /\ s[j].isNew) => s[i].isNew

StrictOrder(s) ==
    \A i, j \in 1..Len(s) : i < j =>
        /\ (s[i].isNew /\ s[j].isNew) => s[i].number > s[j].number
        /\ (~s[i].isNew /\ ~s[j].isNew) => s[i].number < s[j].number

WeakOrder(s) ==
    \A i, j \in 1..Len(s) : i < j =>
        /\ (s[i].isNew /\ s[j].isNew) => s[i].number >= s[j].number
        /\ (~s[i].isNew /\ ~s[j].isNew) => s[i].number <= s[j].number

\* C2 (as stated): for any sequence of pushes, the successive pops have every
\* new segment before every backlog segment, the numbers of the new ones
\* strictly decreasing and those of the backlog ones strictly increasing.
C2_PopOrderStrict == NewBeforeBacklog(popAll) /\ StrictOrder(popAll)

\* C2 (amended): the pops made with no push between them have every new
\* segment before every backlog segment, the numbers of the new ones
\* non-increasing and those of the backlog ones non-decreasing.
C2_PopOrderBetweenPushes == NewBeforeBacklog(popRun) /\ WeakOrder(popRun)

\* C2 witness: three bags of both classes were popped in a row.
C2_Witness ==
    /\ Len(popRun) = 3
    /\ popRun[1].isNew /\ popRun[2].isNew /\ ~popRun[3].isNew
    /\ popRun[1].number > popRun[2].number

\* ------------------------------------------------------- the files on disk
\* A per-run directory d holds the segments <d>_<n>.db3, their SQLite
\* siblings (<d>_<n>.db3-wal) and the writer's metadata.yaml.
SegFile(d, n) == [dir |-> d, number |-> n, ext |-> "db3"]

WalFile(d, n) == [dir |-> d, number |-> n, ext |-> "db3-wal"]

MetaFile(d) == [dir |-> d, number |-> 0 - 1, ext |-> "metadata.yaml"]

PathWidth == MaxSeg + MaxBacklog + 1

Paths == (0..MaxRuns) \X (0..(PathWidth - 1))

PathOf(bag) == <<bag.dir, bag.number>>

\* filepath.Glob(escapeMatchPattern(bag.path) + "*"): the names of the bag's
\* directory that start with the bag's file name.
GlobBagFiles(fs, bag) ==
    {f \in fs : f.dir = bag.dir /\ f.number = bag.number
                /\ f.ext \in {"db3", "db3-wal"}}

\* removeBagFiles: os.Remove of every match, then os.Remove of the bag's
\* directory, which fails (ENOTEMPTY, ignored) while anything is left in it.
filesAfterRemove(fs, bag) == fs \ GlobBagFiles(fs, bag)

dirsAfterRemove(fs, ds, bag) ==
    IF \E f \in filesAfterRemove(fs, bag) : f.dir = bag.dir
    THEN ds
    ELSE ds \ {bag.dir}

\* StartWorker removes the files after success and after errEmptyBag.
ShouldRemoveAlways(res) == TRUE

ShouldRemove(res) == res \in {"ok", "empty"}

\* addGlob with the matches marked as new bags: a plausible slip.
RECURSIVE globBagsAsNew(_, _)
globBagsAsNew(fs, k) ==
    IF k >= (MaxRuns + 1) * PathWidth THEN <<>>
    ELSE LET d == k \div PathWidth
             n == k % PathWidth
         IN  (IF SegFile(d, n) \in fs THEN <<Bag(d, n, TRUE)>> ELSE <<>>)
                 \o globBagsAsNew(fs, k + 1)

\* addGlob over dir/*/*.db3: the matches in name order, each turned into a
\* backlog bag by newBagMetadata(match, 0, false).
RECURSIVE globBags(_, _)
globBags(fs, k) ==
    IF k >= (MaxRuns + 1) * PathWidth THEN <<>>
    ELSE LET d == k \div PathWidth
             n == k % PathWidth
         IN  (IF SegFile(d, n) \in fs THEN <<Bag(d, n, FALSE)>> ELSE <<>>)
                 \o globBags(fs, k + 1)

\* ------------------------------------------------------ semaphore.Weighted
NewWeighted(n) == [size |-> n, cur |-> 0]

\* TryAcquire(1) that succeeds whenever no more than size permits are out.
TryAcquireUpToSize(ss) == ss[Len(ss)].size - ss[Len(ss)].cur >= 0

\* TryAcquire(1) on the manager's current semaphore.
TryAcquire(ss) == ss[Len(ss)].size - ss[Len(ss)].cur >= 1

Acquired(ss) == [ss EXCEPT ![Len(ss)].cur = @ + 1]

\* The deferred Release(1) calls of a returning worker; ds holds, per defer
\* statement executed, the semaphore m.workerCount named at that moment.
ReleaseAll(ss, ds) ==
    [i \in 1..Len(ss) |->
        [ss[i] EXCEPT !.cur = @ - Cardinality({k \in 1..Len(ds) : ds[k] = i})]]

\* Release panics ("semaphore: released more than held") when cur drops
\* below zero.
ReleasePanics(ss) == \E i \in 1..Len(ss) : ss[i].cur < 0

\* ------------------------------------------------------------ the contexts
\* Context 0 is the root context of run; 1, 2, ... are the recorder contexts
\* made by newRecorderContext, children of the root.
CtxErr(c) == shutdown \/ c \in recCancelled

\* ----------------------------------------- Spec: the upload manager at work
\* The StartWorker goroutines are kept as a bag of their states
\* [pc, ctx, bag, defers]: which goroutine is which does not matter, and one
\* that has returned is gone.
NewWorker(c) == [pc |-> "loop", ctx |-> c, bag |-> Nil, defers |-> <<>>]

Spawn(ws, c) == ws (+) SetToBag({NewWorker(c)})

Replace(ws, old, new) == (ws (-) SetToBag({old})) (+) SetToBag({new})

Init ==
    /\ queue = <<>>
    /\ pushes = 0
    /\ popAll = <<>>
    /\ popRun = <<>>
    /\ \E n \in 0..MaxPermits : sems = <<NewWeighted(n)>>
    /\ workers = EmptyBag
    /\ spawned = 0
    /\ \E k \in 0..MaxBacklog, graceful \in BOOLEAN :
        /\ (k = 0) => graceful
        /\ files = {SegFile(0, n) : n \in 0..(k - 1)}
                     \cup (IF graceful /\ k > 0 THEN {MetaFile(0)} ELSE {})
                     \cup (IF ~graceful THEN {WalFile(0, k - 1)} ELSE {})
        /\ dirs = IF k = 0 THEN {} ELSE {0}
    /\ outcome = [p \in Paths |-> "none"]
    /\ rehanded = FALSE
    /\ runState = "start"
    /\ pending = TRUE
    /\ recCtx = 0
    /\ recCancelled = {}
    /\ shutdown = FALSE
    /\ curDir = 0
    /\ seg = 0
    /\ crashed = FALSE
    /\ CWIdle
    /\ RecIdle
    /\ MainIdle
    /\ UpIdle
    /\ YamlIdle
    /\ AuxIdle

\* run: LoadExistingBags before the config watcher starts.
LoadExistingBags ==
    /\ runState = "start"
    /\ queue' = heapInit(queue \o globBags(files, 0))
    /\ runState' = "select"
    /\ UNCHANGED <<pushes, popAll, popRun, sems, workers, spawned, files, dirs,
                   outcome, rehanded, pending, recCtx, recCancelled, shutdown,
                   curDir, seg, crashed>>
    /\ UNCHANGED <<cwvars, recvars, mainvars, upvars, yamlvars, auxvars>>

\* SetWorkerCount: a fresh semaphore replaces the manager's.
SetWorkerCount(ss, n) == Append(ss, NewWeighted(n))

\* configWatcher.Run takes the config out of nextConfig; startRecorder applies
\* it (SetWorkerCount), makes the recorder context, starts one worker on it
\* and, when the config asks for recording, calls Recorder.Start. The first
\* config is the initial one, whose count also sized the first semaphore.
ApplyConfig(n, rec) ==
    /\ ~crashed /\ ~shutdown
    /\ runState = "select" /\ pending
    /\ recCtx < MaxRuns
    /\ spawned < MaxWorkers
    /\ (recCtx = 0) => (n = sems[1].size)
    /\ pending' = FALSE
    /\ sems' = SetWorkerCount(sems, n)
    /\ recCtx' = recCtx + 1
    /\ workers' = Spawn(workers, recCtx + 1)
    /\ spawned' = spawned + 1
    /\ IF rec
       THEN runState' = "recording" /\ curDir' = recCtx + 1 /\ seg' = 0
       ELSE UNCHANGED <<runState, curDir, seg>>
    /\ UNCHANGED <<queue, pushes, popAll, popRun, files, dirs, outcome,
                   rehanded, recCancelled, shutdown, crashed>>
    /\ UNCHANGED <<cwvars, recvars, mainvars, upvars, yamlvars, auxvars>>

\* onUpdate with a valid config: stopRecording cancels the recorder context,
\* then the config goes into nextConfig.
ConfigUpdate ==
    /\ ~crashed /\ ~shutdown
    /\ runState # "start" /\ ~pending
    /\ 0 < recCtx /\ recCtx < MaxRuns
    /\ recCancelled' = recCancelled \cup {recCtx}
    /\ pending' = TRUE
    /\ UNCHANGED <<queue, pushes, popAll, popRun, sems, workers, spawned, files,
                   dirs, outcome, rehanded, runState, recCtx, shutdown, curDir,
                   seg, crashed>>
    /\ UNCHANGED <<cwvars, recvars, mainvars, upvars, yamlvars, auxvars>>

\* The writer creates its next segment; the watcher's create event makes
\* notifyIfBagReady start AddBag(ctx, previous segment), which pushes the bag
\* and starts a worker on the recorder context. Once that context is done
\* the watcher may have returned and the event is lost (seen = FALSE).
WriterCreate(seen) ==
    /\ ~crashed
    /\ runState = "recording"
    /\ seg <= MaxSeg
    /\ seen \/ CtxErr(recCtx)
    /\ files' = files \cup {SegFile(curDir, seg)}
    /\ dirs' = dirs \cup {curDir}
    /\ seg' = seg + 1
    /\ IF seg >= 1 /\ seen
       THEN /\ spawned < MaxWorkers
            /\ queue' = heapPush(queue, Bag(curDir, seg - 1, TRUE))
            /\ workers' = Spawn(workers, recCtx)
            /\ spawned' = spawned + 1
       ELSE UNCHANGED <<queue, workers, spawned>>
    /\ UNCHANGED <<pushes, popAll, popRun, sems, outcome, rehanded, runState,
                   pending, recCtx, recCancelled, shutdown, curDir, crashed>>
    /\ UNCHANGED <<cwvars, recvars, mainvars, upvars, yamlvars, auxvars>>

\* The writer exits (interrupted, or on its own) and Recorder.Start returns.
\* A writer that closes its bag leaves metadata.yaml in the directory; one
\* that is killed leaves the SQLite sibling of its last segment.
WriterExit(graceful) ==
    /\ ~crashed
    /\ runState = "recording"
    /\ files' = files \cup (IF seg = 0 THEN {}
                            ELSE IF graceful THEN {MetaFile(curDir)}
                            ELSE {WalFile(curDir, seg - 1)})
    /\ runState' = "select"
    /\ UNCHANGED <<queue, pushes, popAll, popRun, sems, workers, spawned, dirs,
                   outcome, rehanded, pending, recCtx, recCancelled, shutdown,
                   curDir, seg, crashed>>
    /\ UNCHANGED <<cwvars, recvars, mainvars, upvars, yamlvars, auxvars>>

\* SIGINT/SIGTERM cancels the root context.
Shutdown ==
    /\ ~crashed /\ ~shutdown
    /\ runState # "start"
    /\ shutdown' = TRUE
    /\ UNCHANGED <<queue, pushes, popAll, popRun, sems, workers, spawned, files,
                   dirs, outcome, rehanded, runState, pending, recCtx,
                   recCancelled, curDir, seg, crashed>>
    /\ UNCHANGED <<cwvars, recvars, mainvars, upvars, yamlvars, auxvars>>

\* A worker returns: its deferred releases run.
WorkerReturns(w, ss) ==
    /\ workers' = workers (-) SetToBag({w})
    /\ sems' = ReleaseAll(ss, w.defers)
    /\ crashed' = ReleasePanics(ReleaseAll(ss, w.defers))

\* StartWorker, top of the loop: the context check, then under the mutex
\* TryAcquire and nextBag; no bag ends the worker.
WorkerLoop(w) ==
    /\ ~crashed
    /\ w.pc = "loop"
    /\ IF CtxErr(w.ctx) \/ ~TryAcquire(sems)
       THEN /\ WorkerReturns(w, sems)
            /\ UNCHANGED queue
       ELSE IF nextBagResult(queue) = Nil
       THEN /\ WorkerReturns(w, Acquired(sems))
            /\ UNCHANGED queue
       ELSE /\ workers' = Replace(workers, w,
                    [w EXCEPT !.pc = "defer", !.bag = nextBagResult(queue)])
            /\ sems' = Acquired(sems)
            /\ queue' = nextBagQueue(queue)
            /\ UNCHANGED crashed
    /\ UNCHANGED <<pushes, popAll, popRun, spawned, files, dirs, outcome,
                   rehanded, runState, pending, recCtx, recCancelled, shutdown,
                   curDir, seg>>
    /\ UNCHANGED <<cwvars, recvars, mainvars, upvars, yamlvars, auxvars>>

\* StartWorker: defer m.workerCount.Release(1) names the semaphore the field
\* holds now (read without the mutex); then uploadBag(ctx, bag) is called.
WorkerDefer(w) ==
    /\ ~crashed
    /\ w.pc = "defer"
    /\ workers' = Replace(workers, w,
            [w EXCEPT !.pc = "upload", !.defers = Append(@, Len(sems))])
    /\ outcome' = [outcome EXCEPT ![PathOf(w.bag)] = "inflight"]
    /\ rehanded' = (rehanded \/ outcome[PathOf(w.bag)] # "none")
    /\ UNCHANGED <<queue, pushes, popAll, popRun, sems, spawned, files, dirs,
                   runState, pending, recCtx, recCancelled, shutdown, curDir,
                   seg, crashed>>
    /\ UNCHANGED <<cwvars, recvars, mainvars, upvars, yamlvars, auxvars>>

\* A worker that puts a bag whose upload failed back into the queue.
queueAfterUploadRetry(q, bag, res) ==
    IF res = "error" THEN heapPush(q, bag) ELSE q

\* StartWorker after uploadBag returned: whatever the result, the queue is
\* left as it is (a bag that failed is logged and dropped).
queueAfterUpload(q, bag, res) == q

\* uploadBag returns; StartWorker removes the bag's files or leaves them and
\* goes round the loop.
UploadReturn(w, res) ==
    /\ ~crashed
    /\ w.pc = "upload"
    /\ queue' = queueAfterUpload(queue, w.bag, res)
    /\ outcome' = [outcome EXCEPT ![PathOf(w.bag)] = res]
    /\ IF ShouldRemove(res)
       THEN /\ files' = filesAfterRemove(files, w.bag)
            /\ dirs' = dirsAfterRemove(files, dirs, w.bag)
       ELSE UNCHANGED <<files, dirs>>
    /\ workers' = Replace(workers, w, [w EXCEPT !.pc = "loop"])
    /\ UNCHANGED <<pushes, popAll, popRun, sems, spawned, rehanded,
                   runState, pending, recCtx, recCancelled, shutdown, curDir,
                   seg, crashed>>
    /\ UNCHANGED <<cwvars, recvars, mainvars, upvars, yamlvars, auxvars>>

Next ==
    \/ LoadExistingBags
    \/ \E n \in 0..MaxPermits, rec \in BOOLEAN : ApplyConfig(n, rec)
    \/ ConfigUpdate
    \/ \E seen \in BOOLEAN : WriterCreate(seen)
    \/ \E graceful \in BOOLEAN : WriterExit(graceful)
    \/ Shutdown
    \/ \E w \in BagToSet(workers) : WorkerLoop(w)
    \/ \E w \in BagToSet(workers) : WorkerDefer(w)
    \/ \E w \in BagToSet(workers), res \in {"ok", "empty", "error"} : UploadReturn(w, res)

Spec == Init /\ [][Next]_vars

\* The uploads in flight: the workers between acquiring a permit and the
\* return of uploadBag.
InFlight == {w \in BagToSet(workers) : w.pc \in {"defer", "upload"}}

InFlightCount == BagCardinality([w \in InFlight |-> workers[w]])

\* The current max_upload_count: the size of the manager's semaphore.
CurrentLimit == sems[Len(sems)].size

\* C1: in every reachable state, also after SetWorkerCount changed the limit
\* while uploads were running, the number of uploads in flight is at most
\* the current max_upload_count.
C1_InFlightWithinLimit == InFlightCount <= CurrentLimit

\* Nothing is left to run: every worker has returned and the config watcher
\* has no config to apply.
Quiescent == workers = EmptyBag /\ ~pending /\ runState # "start"

\* C3: with a worker limit of at least 1 and uploads that return, every bag
\* added by AddBag is passed to the upload function, and only once; so when
\* every worker has returned, no added bag is left in the queue.
C3_AllAddedUploaded ==
    (/\ Quiescent
     /\ \A i \in 1..Len(sems) : sems[i].size >= 1
     /\ ~shutdown /\ recCancelled = {} /\ ~crashed)
    => (/\ \A i \in 1..Len(queue) : ~queue[i].isNew
        /\ ~rehanded)

\* C6: the context an upload in flight runs under is cancelled only by the
\* process-wide shutdown, never by cancelling a recorder sub-context.
C6_UploadCtxOnlyShutdown ==
    \A w \in BagToSet(workers) : (w.pc = "upload" /\ CtxErr(w.ctx)) => shutdown

\* C21: while the current max_upload_count is 0 no worker obtains a permit
\* from any semaphore, no bag leaves the queue and no upload comes into
\* flight; a bag that is added or loaded in such a step stays queued.
C21_ZeroDisablesUploading ==
    [][(CurrentLimit = 0) =>
          /\ Len(sems') >= Len(sems)
          /\ \A i \in 1..Len(sems) : sems'[i].cur <= sems[i].cur
          /\ \A i \in 1..Len(queue) :
                \E j \in 1..Len(queue') : queue'[j] = queue[i]
          /\ InFlightCount' <= InFlightCount]_vars

\* C21 witness: the limit is 0, a worker has run and returned, and a bag
\* of the backlog is still in the queue with no permit taken.
C21_Witness ==
    /\ CurrentLimit = 0 /\ sems[Len(sems)].cur = 0
    /\ runState # "start" /\ recCtx >= 1
    /\ workers = EmptyBag /\ spawned >= 1
    /\ Len(queue) >= 1

\* C29: a worker's release goes to the semaphore instance its permit came
\* from, also when SetWorkerCount replaced the manager's semaphore in
\* between; so no instance is released more often than it was acquired:
\* the count of permits out never falls below zero on any instance.
C29_ReleaseToAcquiredSemaphore ==
    \A i \in 1..Len(sems) : sems[i].cur >= 0

\* C30: every permit a worker acquired is released when the worker
\* returns, on every path; so whenever no worker is running, all permits
\* of the current semaphore are free.
C30_PermitsFreeWhenIdle ==
    (workers = EmptyBag /\ ~crashed) => sems[Len(sems)].cur = 0

\* ------------------------- SpecFS: the files of one recorder run and backlog
\* The upload manager as in Spec, with the config watcher applying the
\* initial config only: later configs cancel the recorder context and wait.
FSNext ==
    \/ LoadExistingBags
    \/ \E n \in 0..MaxPermits, rec \in BOOLEAN : recCtx = 0 /\ ApplyConfig(n, rec)
    \/ ConfigUpdate
    \/ \E seen \in BOOLEAN : WriterCreate(seen)
    \/ \E graceful \in BOOLEAN : WriterExit(graceful)
    \/ Shutdown
    \/ \E w \in BagToSet(workers) : WorkerLoop(w)
    \/ \E w \in BagToSet(workers) : WorkerDefer(w)
    \/ \E w \in BagToSet(workers), res \in {"ok", "empty", "error"} : UploadReturn(w, res)

SpecFS == Init /\ [][FSNext]_vars

BagFilesOf(fs, p) == {f \in fs : f.dir = p[1] /\ f.number = p[2]}

\* C7: a bag's files are removed only in the step in which that bag's upload
\* call returns success or the empty-bag error: not while the bag is queued,
\* not while its upload is in flight, not after another upload error.
C7_RemovedOnlyAfterUpload ==
    [][\A f \in files \ files' :
          /\ f.ext \in {"db3", "db3-wal"}
          /\ outcome[<<f.dir, f.number>>] = "inflight"
          /\ outcome'[<<f.dir, f.number>>] \in {"ok", "empty"}]_vars

\* C7 witness: one bag was uploaded and its segment removed while a bag
\* whose upload failed still has its segment.
C7_Witness ==
    \E p, q \in Paths :
        /\ outcome[p] = "ok" /\ BagFilesOf(files, p) = {}
        /\ outcome[q] = "error" /\ SegFile(q[1], q[2]) \in files

\* C9: after the upload of a bag succeeds and its cleanup completes, no file
\* whose name starts with the bag's path exists, and if the bag was the last
\* segment of its per-run directory, metadata.yaml and the directory are
\* removed.
C9_CleanupComplete ==
    [][\A p \in Paths : (outcome[p] = "inflight" /\ outcome'[p] = "ok") =>
          /\ BagFilesOf(files', p) = {}
          /\ (~\E f \in files' : f.dir = p[1] /\ f.ext = "db3") =>
                (p[1] \notin dirs' /\ MetaFile(p[1]) \notin files')]_vars

\* C10: when an upload returns an error other than empty-bag, the files are
\* left as they are and the bag is not put back into the queue; a popped bag
\* is handed to the uploader at most once.
C10_ErrorLeavesBag ==
    [][/\ \A p \in Paths : (outcome[p] = "inflight" /\ outcome'[p] = "error") =>
             (files' = files /\ dirs' = dirs /\ queue' = queue)
       /\ ~rehanded']_vars

\* C10 witness: an upload failed, its worker has returned, the segment is
\* still on disk and the bag is not in the queue.
C10_Witness ==
    \E p \in Paths :
        /\ outcome[p] = "error"
        /\ SegFile(p[1], p[2]) \in files
        /\ workers = EmptyBag
        /\ \A i \in 1..Len(queue) : PathOf(queue[i]) # p

\* A bag was handed to AddBag: it is queued, held by a worker, or its
\* upload was started.
Announced(p) ==
    \/ \E i \in 1..Len(queue) : PathOf(queue[i]) = p
    \/ \E w \in BagToSet(workers) : w.pc # "loop" /\ PathOf(w.bag) = p
    \/ outcome[p] # "none"

\* C17: in a recorder run whose writer produced segments 0..K and exited,
\* with the recorder context never cancelled, every one of the segments
\* 0..K was handed to onBagReady, and none twice.
C17_EverySegmentAnnounced ==
    (/\ runState = "select" /\ curDir >= 1 /\ seg >= 1
     /\ ~CtxErr(curDir) /\ ~crashed)
    => (/\ \A n \in 0..(seg - 1) : Announced(<<curDir, n>>)
        /\ ~rehanded)

\* ------------------------------------ SpecCW: config watcher and recorder
\* configWatcher.Run, startRecorder and onUpdate of the config watcher,
\* with missionDataRecorder.Start and the writer process it runs. The
\* upload manager's SetConfig and StartWorker return at once and are left
\* out; the queue and files stay as they are.

\* Number of config messages the subscription delivers in one behaviour.
MaxConfigs == 2
\* Number of times a writer dies on its own in one behaviour.
MaxFails == 1

\* ctx.Err() != nil for a recorder context: a child of Run's context.
RecCtxErr(c) == done \/ c \in cancelled

\* A Start that returns while the process it spawned still runs.
startMayReturnEarly(ws, c) == TRUE

\* missionDataRecorder.Start returns only after cmd.Wait has returned: the
\* writer process of this call is gone.
startMayReturn(ws, c) == ~\E w \in ws : w.ctx = c

\* time.NewTimer(w.RetryDelay): the timer runs and its channel is empty.
NewTimer == [running |-> TRUE, tick |-> FALSE]

\* The timer after Timer.Stop; Stop returns whether the timer was running.
timerStop(t) == [t EXCEPT !.running = FALSE]

\* The timer after Timer.Reset(w.RetryDelay).
timerReset(t) == [t EXCEPT !.running = TRUE]

\* The config case of Run that stops the timer and leaves a tick that was
\* already sent in the channel.
timerAfterConfigNoDrain(active, t) == IF active THEN timerStop(t) ELSE t

\* The config case of Run: if w.retryTimerActive && !w.retryTimer.Stop()
\* { <-w.retryTimer.C }. Stop is called only when the flag is set, and the
\* channel is read only when Stop found the timer not running.
timerAfterConfig(active, t) ==
    IF active
    THEN IF t.running THEN timerStop(t) ELSE [timerStop(t) EXCEPT !.tick = FALSE]
    ELSE t

\* The read of the channel in the config case finds it empty and blocks.
drainBlocks(active, t) == active /\ ~t.running /\ ~t.tick

\* The timer after startRecorder's switch: Reset when the retry is armed.
timerAfterStart(armed, t) == IF armed THEN timerReset(t) ELSE t

\* newConfigWatcher makes the timer, stops it, and puts initConfig into
\* nextConfig; main starts Run and the spinning of the subscription.
CWInit ==
    /\ QIdle
    /\ UMIdle
    /\ RecIdle
    /\ MainIdle
    /\ UpIdle
    /\ YamlIdle
    /\ AuxIdle
    /\ \E rec \in BOOLEAN :
        /\ nextConfig = <<Config(0, rec)>>
        /\ currentConfig = Config(0, rec)
        /\ updConfig = Config(0, rec)
        /\ accepted = Config(0, rec)
    /\ runPc = "select"
    /\ stopRecorder = 0
    /\ ctxCount = 0
    /\ cancelled = {}
    /\ done = FALSE
    /\ writers = {}
    /\ exitErr = FALSE
    /\ retryTimerActive = FALSE
    /\ updPc = "idle"
    /\ sent = 0
    /\ fails = 0
    /\ timer = timerStop(NewTimer)
    /\ armedFor = 0
    /\ consumedAt = 0

\* stopRecording: cancel the context of w.stopRecorder unless it is nil.
stopRecording(cs, stop) == IF stop = 0 THEN cs ELSE cs \cup {stop}

\* onUpdate up to its send: the message is taken and parsed, the config is
\* accepted and the recording stopped.
onUpdate(rec) ==
    /\ updPc = "idle"
    /\ sent < MaxConfigs
    /\ sent' = sent + 1
    /\ updConfig' = Config(sent + 1, rec)
    /\ accepted' = Config(sent + 1, rec)
    /\ cancelled' = stopRecording(cancelled, stopRecorder)
    /\ updPc' = "send"
    /\ UNCHANGED <<nextConfig, currentConfig, runPc, stopRecorder, ctxCount, done,
                   writers, exitErr, retryTimerActive, fails>>
    /\ UNCHANGED <<timer, armedFor, consumedAt>>
    /\ UNCHANGED <<qvars, umvars, recvars, mainvars, upvars, yamlvars, auxvars>>

\* The config messages that do not give a config: text that is not YAML of
\* the config's shape, or a negative max_upload_count.
Messages == [wellFormed : BOOLEAN, maxUploadCount : {0 - 1, 0, 1}]

\* parseUpdatableConfigYAML returns an error.
parseFails(msg) == ~msg.wellFormed \/ msg.maxUploadCount < 0

\* An onUpdate that stops the recording before it parses the message.
cancelledOnRejectStop(cs, stop) == stopRecording(cs, stop)

\* onUpdate returning on a parse error: stopRecording is not reached.
cancelledOnReject(cs, stop) == cs

\* onUpdate on a message that cannot be parsed: it is logged, reported and
\* dropped.
onUpdateReject(msg) ==
    /\ updPc = "idle"
    /\ sent < MaxConfigs
    /\ parseFails(msg)
    /\ sent' = sent + 1
    /\ cancelled' = cancelledOnReject(cancelled, stopRecorder)
    /\ UNCHANGED <<nextConfig, currentConfig, runPc, stopRecorder, ctxCount, done,
                   writers, exitErr, retryTimerActive, updPc, updConfig, accepted,
                   fails>>
    /\ UNCHANGED <<timer, armedFor, consumedAt>>
    /\ UNCHANGED <<qvars, umvars, recvars, mainvars, upvars, yamlvars, auxvars>>

\* onUpdate's send: it blocks while the channel holds a config.
onUpdateSend ==
    /\ updPc = "send"
    /\ Len(nextConfig) = 0
    /\ nextConfig' = <<updConfig>>
    /\ updPc' = "idle"
    /\ UNCHANGED <<currentConfig, runPc, stopRecorder, ctxCount, cancelled, done,
                   writers, exitErr, retryTimerActive, updConfig, sent, accepted,
                   fails>>
    /\ UNCHANGED <<timer, armedFor, consumedAt>>
    /\ UNCHANGED <<qvars, umvars, recvars, mainvars, upvars, yamlvars, auxvars>>

\* Run's select takes the config of nextConfig.
RunReceive ==
    /\ runPc = "select"
    /\ Len(nextConfig) = 1
    /\ currentConfig' = nextConfig[1]
    /\ nextConfig' = <<>>
    /\ timer' = timerAfterConfig(retryTimerActive, timer)
    /\ consumedAt' = ctxCount
    /\ IF drainBlocks(retryTimerActive, timer)
       THEN runPc' = "drain" /\ UNCHANGED retryTimerActive
       ELSE runPc' = "apply" /\ retryTimerActive' = FALSE
    /\ UNCHANGED <<stopRecorder, ctxCount, cancelled, done, writers, exitErr,
                   updPc, updConfig, sent, accepted, fails, armedFor>>
    /\ UNCHANGED <<qvars, umvars, recvars, mainvars, upvars, yamlvars, auxvars>>

\* Run's select takes the tick of the retry timer out of its channel; a
\* config that is ready at the same time may be taken instead. A select
\* that finds ctx.Done ready takes that.
RunRetry ==
    /\ runPc = "select"
    /\ timer.tick
    /\ timer' = [timer EXCEPT !.tick = FALSE]
    /\ ~done
    /\ retryTimerActive' = FALSE
    /\ runPc' = "apply"
    /\ UNCHANGED <<nextConfig, currentConfig, stopRecorder, ctxCount, cancelled,
                   done, writers, exitErr, updPc, updConfig, sent, accepted, fails>>
    /\ UNCHANGED <<armedFor, consumedAt>>
    /\ UNCHANGED <<qvars, umvars, recvars, mainvars, upvars, yamlvars, auxvars>>

\* The retry timer expires: the runtime sends the tick into the channel,
\* which holds one.
TimerFires ==
    /\ timer.running
    /\ timer' = [running |-> FALSE, tick |-> TRUE]
    /\ UNCHANGED <<nextConfig, currentConfig, runPc, stopRecorder, ctxCount,
                   cancelled, done, writers, exitErr, retryTimerActive, updPc,
                   updConfig, sent, accepted, fails, armedFor, consumedAt>>
    /\ UNCHANGED <<qvars, umvars, recvars, mainvars, upvars, yamlvars, auxvars>>

\* Run's select takes ctx.Done and Run returns.
RunDone ==
    /\ runPc = "select"
    /\ done
    /\ runPc' = "returned"
    /\ UNCHANGED <<nextConfig, currentConfig, stopRecorder, ctxCount, cancelled,
                   done, writers, exitErr, retryTimerActive, updPc, updConfig,
                   sent, accepted, fails>>
    /\ UNCHANGED <<timer, armedFor, consumedAt>>
    /\ UNCHANGED <<qvars, umvars, recvars, mainvars, upvars, yamlvars, auxvars>>

\* An applyConfig that asks for a recorder whatever the topics are.
applyConfigAlwaysRuns(config) == TRUE

\* applyConfig's result: run the recorder if topics is all or a non-empty
\* list, which is the rec field of a config.
applyConfig(config) == config.rec

\* startRecorder up to the call of Start: applyConfig, newRecorderContext.
startRecorder ==
    /\ runPc = "apply"
    /\ ctxCount' = ctxCount + 1
    /\ stopRecorder' = ctxCount + 1
    /\ runPc' = IF applyConfig(currentConfig) THEN "start" ELSE "select"
    /\ UNCHANGED <<nextConfig, currentConfig, cancelled, done, writers, exitErr,
                   retryTimerActive, updPc, updConfig, sent, accepted, fails>>
    /\ UNCHANGED <<timer, armedFor, consumedAt>>
    /\ UNCHANGED <<qvars, umvars, recvars, mainvars, upvars, yamlvars, auxvars>>

\* A startRecorder that arms the retry timer whatever Start returned.
retryArmedAlways(err) == TRUE

\* startRecorder's switch on what Start returned: nil and context.Canceled
\* arm nothing, any other error arms the retry timer. err is whether Start
\* returned such an other error (Start wraps every error it returns, so it
\* never returns context.Canceled itself).
retryArmed(err) == err

\* Start up to cmd.Start: with the context already cancelled cmd.Start
\* fails, Start returns the wrapped error and startRecorder arms the retry
\* timer; otherwise the writer process runs.
recorderStart ==
    /\ runPc = "start"
    /\ IF RecCtxErr(stopRecorder)
       THEN /\ retryTimerActive' = retryArmed(TRUE)
            /\ timer' = timerAfterStart(retryArmed(TRUE), timer)
            /\ armedFor' = IF retryArmed(TRUE) THEN stopRecorder ELSE armedFor
            /\ runPc' = "select"
            /\ UNCHANGED <<writers, exitErr>>
       ELSE /\ writers' = writers \cup {[ctx |-> stopRecorder, cfg |-> currentConfig.id]}
            /\ exitErr' = FALSE
            /\ runPc' = "wait"
            /\ UNCHANGED <<retryTimerActive, timer, armedFor>>
    /\ UNCHANGED <<nextConfig, currentConfig, stopRecorder, ctxCount, cancelled,
                   done, updPc, updConfig, sent, accepted, fails, consumedAt>>
    /\ UNCHANGED <<qvars, umvars, recvars, mainvars, upvars, yamlvars, auxvars>>

\* The writer exits because its context was cancelled: on the interrupt
\* with exit code 2 (no error), or killed by exec.CommandContext (an error).
WriterInterrupted(err) ==
    /\ \E w \in writers :
        /\ RecCtxErr(w.ctx)
        /\ writers' = writers \ {w}
    /\ exitErr' = err
    /\ UNCHANGED <<nextConfig, currentConfig, runPc, stopRecorder, ctxCount,
                   cancelled, done, retryTimerActive, updPc, updConfig, sent,
                   accepted, fails>>
    /\ UNCHANGED <<timer, armedFor, consumedAt>>
    /\ UNCHANGED <<qvars, umvars, recvars, mainvars, upvars, yamlvars, auxvars>>

\* The writer dies on its own with an error.
WriterFails ==
    /\ fails < MaxFails
    /\ \E w \in writers :
        /\ ~RecCtxErr(w.ctx)
        /\ writers' = writers \ {w}
    /\ exitErr' = TRUE
    /\ fails' = fails + 1
    /\ UNCHANGED <<nextConfig, currentConfig, runPc, stopRecorder, ctxCount,
                   cancelled, done, retryTimerActive, updPc, updConfig, sent,
                   accepted>>
    /\ UNCHANGED <<timer, armedFor, consumedAt>>
    /\ UNCHANGED <<qvars, umvars, recvars, mainvars, upvars, yamlvars, auxvars>>

\* The writer exits on its own with status 0, or with status 2 after an
\* interrupt that did not come from Start: cmd.Wait gives no error that
\* Start passes on.
WriterExitsClean ==
    /\ fails < MaxFails
    /\ \E w \in writers :
        /\ ~RecCtxErr(w.ctx)
        /\ writers' = writers \ {w}
    /\ exitErr' = FALSE
    /\ fails' = fails + 1
    /\ UNCHANGED <<nextConfig, currentConfig, runPc, stopRecorder, ctxCount,
                   cancelled, done, retryTimerActive, updPc, updConfig, sent,
                   accepted>>
    /\ UNCHANGED <<timer, armedFor, consumedAt>>
    /\ UNCHANGED <<qvars, umvars, recvars, mainvars, upvars, yamlvars, auxvars>>

\* Start returns to startRecorder, which arms the retry timer on an error
\* and returns to Run's select.
RunStartReturns ==
    /\ runPc = "wait"
    /\ startMayReturn(writers, stopRecorder)
    /\ retryTimerActive' = retryArmed(exitErr)
    /\ timer' = timerAfterStart(retryArmed(exitErr), timer)
    /\ armedFor' = IF retryArmed(exitErr) THEN stopRecorder ELSE armedFor
    /\ runPc' = "select"
    /\ UNCHANGED <<nextConfig, currentConfig, stopRecorder, ctxCount, cancelled,
                   done, writers, exitErr, updPc, updConfig, sent, accepted, fails,
                   consumedAt>>
    /\ UNCHANGED <<qvars, umvars, recvars, mainvars, upvars, yamlvars, auxvars>>

\* main: the signal context is cancelled.
CWShutdown ==
    /\ ~done
    /\ done' = TRUE
    /\ UNCHANGED <<nextConfig, currentConfig, runPc, stopRecorder, ctxCount,
                   cancelled, writers, exitErr, retryTimerActive, updPc,
                   updConfig, sent, accepted, fails>>
    /\ UNCHANGED <<timer, armedFor, consumedAt>>
    /\ UNCHANGED <<qvars, umvars, recvars, mainvars, upvars, yamlvars, auxvars>>

CWNext ==
    \/ \E rec \in BOOLEAN : onUpdate(rec)
    \/ \E msg \in Messages : onUpdateReject(msg)
    \/ onUpdateSend
    \/ RunReceive
    \/ RunRetry
    \/ TimerFires
    \/ RunDone
    \/ startRecorder
    \/ recorderStart
    \/ \E err \in BOOLEAN : WriterInterrupted(err)
    \/ WriterFails
    \/ WriterExitsClean
    \/ RunStartReturns
    \/ CWShutdown

SpecCW == CWInit /\ [][CWNext]_vars

\* The Go scheduler runs every goroutine that can take a step, and a
\* process whose context is cancelled is signalled and exits. The arrival
\* of messages, the shutdown and a failing writer are not forced.
FairCW ==
    /\ SpecCW
    /\ WF_vars(onUpdateSend)
    /\ WF_vars(RunReceive \/ RunRetry \/ RunDone)
    /\ WF_vars(TimerFires)
    /\ WF_vars(startRecorder)
    /\ WF_vars(recorderStart)
    /\ WF_vars(\E err \in BOOLEAN : WriterInterrupted(err))
    /\ WF_vars(RunStartReturns)

\* The last accepted config, if it came by the topic and asks for
\* recording, is the config of the one writer alive.
Settled ==
    (accepted.id >= 1 /\ accepted.rec) =>
        (Cardinality(writers) = 1 /\ \A w \in writers : w.cfg = accepted.id)

\* C4: after onUpdate accepted a config that asks for recording, under fair
\* scheduling and a writer that exits when interrupted, eventually and from
\* then on exactly one recorder runs, started with the last accepted config
\* (unless the process is shut down). Only behaviours in which a further
\* message could still arrive are counted, so that a recorder left with an
\* old config is left there by the program and not by the end of the input.
C4_AcceptedConfigRuns == <>[](done \/ Settled \/ sent = MaxConfigs)

\* C5: at every instant at most one writer process spawned by Start is
\* alive.
C5_OneWriter == Cardinality(writers) <= 1

\* C5 witness: a second recorder run has its writer alive after the first
\* run's writer was stopped by a new config.
C5_Witness ==
    \E w \in writers : w.ctx >= 2 /\ w.cfg >= 1 /\ cancelled # {}

\* C11: when Start returns an error other than nil or cancelled the retry
\* timer is armed, and when it returns nil it is not; the firing of the
\* timer is taken only while armed, keeps the last consumed config and
\* leads to startRecorder; every writer is started with the last consumed
\* config.
C11_RetryAfterError ==
    [][/\ (runPc = "wait" /\ runPc' = "select") => (retryTimerActive' = exitErr)
       /\ (runPc = "start" /\ runPc' = "select") => retryTimerActive'
       /\ (runPc = "select" /\ runPc' = "apply" /\ nextConfig' = nextConfig) =>
             (retryTimerActive /\ ~retryTimerActive' /\ currentConfig' = currentConfig)
       /\ \A w \in writers' \ writers : w.cfg = currentConfig.id]_vars

\* C11 witness: no config message came, the writer of the initial config
\* died with an error, and the retry started a writer with that config.
C11_Witness ==
    /\ sent = 0 /\ fails = 1 /\ ~retryTimerActive
    /\ writers = {[ctx |-> 2, cfg |-> 0]}

\* C12: when a config message fails parsing or validation, onUpdate changes
\* nothing: no recorder context is cancelled, the pending-config slot, the
\* accepted config, the upload manager and the writer stay as they are.
C12_InvalidConfigDropped ==
    [][(sent' = sent + 1 /\ updPc' = "idle") =>
          /\ cancelled' = cancelled
          /\ nextConfig' = nextConfig
          /\ accepted' = accepted
          /\ currentConfig' = currentConfig
          /\ writers' = writers
          /\ stopRecorder' = stopRecorder
          /\ retryTimerActive' = retryTimerActive
          /\ sems' = sems]_vars

\* C12 witness: a message was dropped and the recorder of the initial
\* config is running, not cancelled.
C12_Witness ==
    /\ sent = 1 /\ accepted.id = 0 /\ updPc = "idle"
    /\ writers = {[ctx |-> 1, cfg |-> 0]}
    /\ cancelled = {}

\* C13: while the config last consumed has no topics, no writer process is
\* alive, Run is not in Start and the retry timer is not armed, so no
\* recorder runs until a later config with topics is applied.
C13_NoTopicsNoRecorder ==
    ~currentConfig.rec =>
        (writers = {} /\ ~retryTimerActive /\ runPc \notin {"start", "wait"})

\* C13 witness: a recorder ran, a config without topics came and was
\* applied, and Run is back in its select with no writer.
C13_Witness ==
    /\ currentConfig.id >= 1 /\ ~currentConfig.rec
    /\ ctxCount = 2 /\ cancelled = {1} /\ fails = 0
    /\ runPc = "select" /\ writers = {}

\* C27: whenever a config sits in nextConfig, every recorder context made
\* so far, each made for an earlier config, is cancelled, and so is the
\* context of every writer alive: no recorder of an older config runs on
\* uncancelled while a newer config is queued.
C27_OldCancelledBeforeQueued ==
    (Len(nextConfig) = 1) =>
        /\ \A c \in 1..ctxCount : RecCtxErr(c)
        /\ \A w \in writers : RecCtxErr(w.ctx)

\* C28: nextConfig holds at most one config, and the config the main loop
\* takes from it is the most recent one accepted: a writer that found the
\* slot occupied has replaced the occupant, it is not waiting behind it.
C28_LatestConfigConsumed ==
    [][/\ Len(nextConfig') <= 1
       /\ (runPc = "select" /\ runPc' = "apply" /\ Len(nextConfig) = 1)
          => currentConfig' = accepted]_vars

\* C31: when Run takes a config, the retry timer is left stopped with its
\* channel empty and Run does not hang in the drain; and when Run takes a
\* tick of the timer, the failure that armed it happened in a recorder
\* context made after the last config was taken.
C31_NoStaleRetry ==
    [][/\ (runPc = "select" /\ Len(nextConfig) = 1 /\ nextConfig' = <<>>) =>
             /\ timer' = [running |-> FALSE, tick |-> FALSE]
             /\ ~retryTimerActive'
             /\ runPc' = "apply"
       /\ (runPc = "select" /\ runPc' = "apply" /\ nextConfig' = nextConfig) =>
             armedFor > consumedAt]_vars

\* C31 witness: a failure armed the timer, and Run has then taken a config
\* that came by the topic: the timer is neither running nor holding a tick.
C31_Witness ==
    /\ armedFor >= 1 /\ armedFor <= consumedAt
    /\ currentConfig.id >= 1
    /\ runPc = "apply"
    /\ ~timer.running /\ ~timer.tick

\* C39: while the config last taken asks for recording and no shutdown is
\* requested, Run never waits in its select with nothing to wake it: when
\* no writer is alive, the retry timer is armed or a config is in
\* nextConfig or on its way into it.
C39_NeverIdle ==
    (currentConfig.rec /\ ~done /\ runPc = "select" /\ writers = {}) =>
        (retryTimerActive \/ Len(nextConfig) = 1 \/ updPc = "send")

\* ------------------------------ SpecRec: the file watcher of the recorder
\* The watcher goroutine of startWatcher handing every create event of a
\* file to notifyIfBagReady. A file name is its base name up to the
\* extension, a sequence of characters, and the extension; the directory
\* part passes through newBagMetadata unchanged and is left out.

\* Longest base name (without extension) among the created files.
MaxStemLen == 3
\* Number of create events in one behaviour.
MaxEvents == 2

DigitChars == <<"0", "1", "2", "3", "4", "5", "6", "7", "8", "9">>

IsDigit(c) == \E i \in 1..10 : DigitChars[i] = c

DigitVal(c) == (CHOOSE i \in 1..10 : DigitChars[i] = c) - 1

\* The characters file names are made of.
Chars == {"a", "_", "0", "1"}

RECURSIVE StemsOfLen(_)
StemsOfLen(n) ==
    IF n = 0 THEN {<<>>}
    ELSE {Append(st, c) : st \in StemsOfLen(n - 1), c \in Chars}

\* A segment number of twenty digits, beyond the range of int.
HugeNumber == [i \in 1..20 |-> "9"]

Stems ==
    UNION {StemsOfLen(n) : n \in 1..MaxStemLen} \cup {<<"a", "_">> \o HugeNumber}

FileNames == {[stem |-> st, ext |-> e] : st \in Stems, e \in {"db3", "db3-wal"}}

\* Position of the last underscore of a name, 0 if there is none.
LastUnderscore(st) ==
    IF \E i \in 1..Len(st) : st[i] = "_"
    THEN CHOOSE i \in 1..Len(st) :
            st[i] = "_" /\ \A j \in (i + 1)..Len(st) : st[j] # "_"
    ELSE 0

\* bagNumberRegex ^(.*)_(\d+)\.db3$ matches: the greedy first group ends
\* at the last underscore, digits and only digits follow it.
Matches(name) ==
    /\ name.ext = "db3"
    /\ LastUnderscore(name.stem) > 0
    /\ LastUnderscore(name.stem) < Len(name.stem)
    /\ \A j \in (LastUnderscore(name.stem) + 1)..Len(name.stem) : IsDigit(name.stem[j])

\* matches[1] and matches[2] of a matching name.
MatchPrefix(name) == SubSeq(name.stem, 1, LastUnderscore(name.stem) - 1)

MatchDigits(name) == SubSeq(name.stem, LastUnderscore(name.stem) + 1, Len(name.stem))

RECURSIVE StripZeros(_)
StripZeros(ds) ==
    IF Len(ds) > 1 /\ ds[1] = "0" THEN StripZeros(Tail(ds)) ELSE ds

\* The digits of the largest int, 2^63 - 1.
MaxIntDigits ==
    <<"9", "2", "2", "3", "3", "7", "2", "0", "3", "6", "8", "5", "4", "7", "7", "5",
      "8", "0", "7">>

\* ds is a greater number than es, both of the same length.
DigitsGreater(ds, es) ==
    \E i \in 1..Len(ds) :
        /\ DigitVal(ds[i]) > DigitVal(es[i])
        /\ \A j \in 1..(i - 1) : ds[j] = es[j]

\* strconv.Atoi returns a range error: the number does not fit an int.
AtoiFails(ds) ==
    \/ Len(StripZeros(ds)) > Len(MaxIntDigits)
    \/ /\ Len(StripZeros(ds)) = Len(MaxIntDigits)
       /\ DigitsGreater(StripZeros(ds), MaxIntDigits)

\* strconv.Atoi of a digit string that fits.
RECURSIVE Atoi(_)
Atoi(ds) ==
    IF Len(ds) = 0 THEN 0
    ELSE Atoi(SubSeq(ds, 1, Len(ds) - 1)) * 10 + DigitVal(ds[Len(ds)])

\* fmt.Sprintf("%d") of an int.
RECURSIVE FormatInt(_)
FormatInt(n) ==
    IF n < 0 THEN <<"-">> \o FormatInt(0 - n)
    ELSE IF n < 10 THEN <<DigitChars[n + 1]>>
    ELSE Append(FormatInt(n \div 10), DigitChars[(n % 10) + 1])

NilMeta == [path |-> <<>>, number |-> 0, isNew |-> FALSE, nil |-> TRUE]

\* newBagMetadata on a name whose number it can parse.
newBagMetadata(name, delta, isNew) ==
    IF ~Matches(name) THEN NilMeta
    ELSE [path   |-> MatchPrefix(name) \o <<"_">> \o FormatInt(Atoi(MatchDigits(name)) + delta),
          number |-> Atoi(MatchDigits(name)) + delta,
          isNew  |-> isNew,
          nil    |-> FALSE]

\* notifyIfBagReady: the bag is handed on if there is one and its number
\* is not negative.
Ready(bag) == ~bag.nil /\ bag.number >= 0

RecInit ==
    /\ QIdle
    /\ UMIdle
    /\ CWIdle
    /\ MainIdle
    /\ UpIdle
    /\ YamlIdle
    /\ AuxIdle
    /\ ready = <<>>
    /\ panicked = FALSE
    /\ nEvents = 0
    /\ lastName = <<>>
    /\ watching = TRUE
    /\ called = <<>>
    /\ watched = "parent"
    /\ readyDir = <<>>

\* The watcher receives the create event whose path is currentDir: the
\* parent leaves the watch list and currentDir enters it.
DirCreated ==
    /\ watching
    /\ ~panicked
    /\ watched = "parent"
    /\ watched' = "current"
    /\ UNCHANGED <<ready, panicked, nEvents, lastName, watching, called, readyDir>>
    /\ UNCHANGED <<qvars, umvars, cwvars, mainvars, upvars, yamlvars, auxvars>>

\* The watcher receives the create event of a file and calls
\* notifyIfBagReady with its name. The file lies in the directory on the
\* watch list; its path is not currentDir, so the else branch is taken
\* whichever directory that is.
CreateEvent(name) ==
    /\ watching
    /\ ~panicked
    /\ nEvents < MaxEvents
    /\ nEvents' = nEvents + 1
    /\ lastName' = name
    /\ IF Matches(name) /\ AtoiFails(MatchDigits(name))
       THEN /\ panicked' = TRUE
            /\ UNCHANGED <<ready, readyDir>>
       ELSE /\ ready' = IF Ready(newBagMetadata(name, 0 - 1, TRUE))
                        THEN Append(ready, newBagMetadata(name, 0 - 1, TRUE))
                        ELSE ready
            /\ readyDir' = IF Ready(newBagMetadata(name, 0 - 1, TRUE))
                           THEN Append(readyDir, watched)
                           ELSE readyDir
            /\ UNCHANGED panicked
    /\ UNCHANGED <<watching, called, watched>>
    /\ UNCHANGED <<qvars, umvars, cwvars, mainvars, upvars, yamlvars, auxvars>>

\* The recorder context is done: the watcher goroutine returns.
WatcherDone ==
    /\ watching
    /\ ~panicked
    /\ watching' = FALSE
    /\ UNCHANGED <<ready, panicked, nEvents, lastName, called, watched, readyDir>>
    /\ UNCHANGED <<qvars, umvars, cwvars, mainvars, upvars, yamlvars, auxvars>>

\* One of the goroutines started by notifyIfBagReady's go statement runs
\* and calls onBagReady (AddBag) with its bag. The scheduler picks any of
\* those not yet run.
BagReadyRuns(i) ==
    /\ ~panicked
    /\ i \in 1..Len(ready)
    /\ \A k \in 1..Len(called) : called[k] # i
    /\ called' = Append(called, i)
    /\ UNCHANGED <<ready, panicked, nEvents, lastName, watching, watched, readyDir>>
    /\ UNCHANGED <<qvars, umvars, cwvars, mainvars, upvars, yamlvars, auxvars>>

RecNext ==
    \/ \E name \in FileNames : CreateEvent(name)
    \/ DirCreated
    \/ WatcherDone
    \/ \E i \in 1..MaxEvents : BagReadyRuns(i)

SpecRec == RecInit /\ [][RecNext]_vars

\* The number a matching name carries is zero.
NumberIsZero(name) == \A i \in 1..Len(MatchDigits(name)) : MatchDigits(name)[i] = "0"

\* C8: for every create event of a file named <prefix>_<N>.db3 the watcher
\* observes: if N >= 1 exactly one bag is handed to onBagReady, with number
\* N-1, path <prefix>_<N-1>.db3 and isNew set; if N = 0 none is; and no bag
\* with a negative number is ever handed on.
C8_ReadyPerCreate ==
    [][(nEvents' = nEvents + 1 /\ Matches(lastName')) =>
          /\ NumberIsZero(lastName') => ready' = ready
          /\ ~NumberIsZero(lastName') =>
                /\ Len(ready') = Len(ready) + 1
                /\ SubSeq(ready', 1, Len(ready)) = ready
                /\ ready'[Len(ready')].isNew
                /\ ready'[Len(ready')].number >= 0
                /\ Len(StripZeros(MatchDigits(lastName'))) <= 9 =>
                      /\ ready'[Len(ready')].number = Atoi(MatchDigits(lastName')) - 1
                      /\ ready'[Len(ready')].path =
                            MatchPrefix(lastName') \o <<"_">>
                              \o FormatInt(Atoi(MatchDigits(lastName')) - 1)]_vars

\* The run directory and prefix of a bag handed on: its path up to the
\* last underscore.
BagPrefix(bag) == SubSeq(bag.path, 1, LastUnderscore(bag.path) - 1)

\* C16: within one recorder run the onBagReady calls reach the upload
\* manager in segment order: if the create events that announce segments N
\* and M were observed in that order and N < M, the call for N is made
\* before the call for M.
C16_ReadyCallsInOrder ==
    \A i, j \in 1..Len(called) :
        (/\ i < j
         /\ BagPrefix(ready[called[i]]) = BagPrefix(ready[called[j]])
         /\ ready[called[j]].number < ready[called[i]].number)
        => called[i] < called[j]

\* C33: every bag handed to onBagReady comes from the create event of a
\* file inside currentDir, seen after the watcher moved from the parent to
\* currentDir; a create event seen while the parent is watched hands on
\* nothing.
C33_ReadyOnlyInsideCurrentDir ==
    \A i \in 1..Len(readyDir) : readyDir[i] = "current"

\* ------------------------------------------- SpecMain: run and its jobs
\* run of main.go from the start of the three jobs to its return: runJob
\* around rclctx.Spin, diagnostics.Run and configWatcher.Run, the errs
\* channel, and the deferred uploadMan.Wait. StartAllWorkers and Wait of
\* the upload manager are not among the source files; they are modelled
\* as the specification describes them: StartAllWorkers spawns
\* max_upload_count workers, Wait blocks until no worker is running.

Jobs == {"rclgo", "diagnostics", "config watcher"}

\* A runJob that leaves the context alone when its job is over.
rootAfterJobKept(d) == d

\* runJob's deferred stop(): the context of run is cancelled.
rootAfterJob(d) == TRUE

\* A Wait that returns while workers run.
waitMayReturnEarly(n) == TRUE

\* uploadManager.Wait returns when no worker is running.
waitMayReturn(n) == n = 0

MainInit ==
    /\ QIdle
    /\ UMIdle
    /\ CWIdle
    /\ RecIdle
    /\ jobState = [j \in Jobs |-> "running"]
    /\ rootDone = FALSE
    /\ signalled = FALSE
    /\ errs = <<>>
    /\ received = 0
    /\ mainPc = "collect"
    /\ running \in 0..MaxPermits
    /\ jobOut = [j \in Jobs |-> "none"]
    /\ runErrs = 0
    /\ UpIdle
    /\ YamlIdle
    /\ AuxIdle

\* SIGINT or SIGTERM arrives.
Signal ==
    /\ ~signalled
    /\ signalled' = TRUE
    /\ rootDone' = TRUE
    /\ UNCHANGED <<jobState, errs, received, mainPc, running, jobOut, runErrs>>
    /\ UNCHANGED <<qvars, umvars, cwvars, recvars, upvars, yamlvars, auxvars>>

\* What a job's function gives: nil, context.Canceled itself, an error
\* wrapping context.Canceled, another error, or a panic.
Outcomes == {"nil", "canceled", "wrapped", "error", "panic"}

\* A runJob whose switch also lets every other returned error pass as nil.
runJobResultPanicOnly(out) == IF out = "panic" THEN "err" ELSE "nil"

\* runJob's result: nil for a job that returned nil or a value equal to
\* context.Canceled, the error "<name> returned an error" for any other
\* returned error, and the recovered panic as an error.
runJobResult(out) == IF out \in {"nil", "canceled"} THEN "nil" ELSE "err"

\* A job returns or panics (because the context is done, or on its own with
\* an error) and runJob's deferred stop() runs.
JobStops(j, out) ==
    /\ jobState[j] = "running"
    /\ jobState' = [jobState EXCEPT ![j] = "stopped"]
    /\ jobOut' = [jobOut EXCEPT ![j] = out]
    /\ rootDone' = rootAfterJob(rootDone)
    /\ UNCHANGED <<signalled, errs, received, mainPc, running, runErrs>>
    /\ UNCHANGED <<qvars, umvars, cwvars, recvars, upvars, yamlvars, auxvars>>

\* runJob's first deferred function recovers a panic and sends the result
\* to errs, which has room for three.
JobReports(j) ==
    /\ jobState[j] = "stopped"
    /\ jobState' = [jobState EXCEPT ![j] = "done"]
    /\ errs' = Append(errs, runJobResult(jobOut[j]))
    /\ UNCHANGED <<rootDone, signalled, received, mainPc, running, jobOut, runErrs>>
    /\ UNCHANGED <<qvars, umvars, cwvars, recvars, upvars, yamlvars, auxvars>>

\* run receives one result and multierror.Append keeps it when it is not
\* nil; after the third, run returns into its defers.
RunReceives ==
    /\ mainPc = "collect"
    /\ errs # <<>>
    /\ errs' = Tail(errs)
    /\ runErrs' = runErrs + (IF Head(errs) = "nil" THEN 0 ELSE 1)
    /\ received' = received + 1
    /\ mainPc' = IF received + 1 = 3 THEN "wait" ELSE "collect"
    /\ UNCHANGED <<jobState, rootDone, signalled, running, jobOut>>
    /\ UNCHANGED <<qvars, umvars, cwvars, recvars, upvars, yamlvars, auxvars>>

\* The first deferred call to run, uploadMan.Wait, returns and run goes on
\* to return.
WaitReturns ==
    /\ mainPc = "wait"
    /\ waitMayReturn(running)
    /\ mainPc' = "returned"
    /\ UNCHANGED <<jobState, rootDone, signalled, errs, received, running, jobOut,
                   runErrs>>
    /\ UNCHANGED <<qvars, umvars, cwvars, recvars, upvars, yamlvars, auxvars>>

\* AddBag spawns a worker while the config watcher and its recorder run.
MainWorkerStarts ==
    /\ jobState["config watcher"] = "running"
    /\ running < MaxWorkers
    /\ running' = running + 1
    /\ UNCHANGED <<jobState, rootDone, signalled, errs, received, mainPc, jobOut,
                   runErrs>>
    /\ UNCHANGED <<qvars, umvars, cwvars, recvars, upvars, yamlvars, auxvars>>

\* A worker returns.
MainWorkerReturns ==
    /\ running > 0
    /\ running' = running - 1
    /\ UNCHANGED <<jobState, rootDone, signalled, errs, received, mainPc, jobOut,
                   runErrs>>
    /\ UNCHANGED <<qvars, umvars, cwvars, recvars, upvars, yamlvars, auxvars>>

MainNext ==
    \/ Signal
    \/ \E j \in Jobs, out \in Outcomes : JobStops(j, out)
    \/ \E j \in Jobs : JobReports(j)
    \/ RunReceives
    \/ WaitReturns
    \/ MainWorkerStarts
    \/ MainWorkerReturns

SpecMain == MainInit /\ [][MainNext]_vars

C26_ExitCode ==
    (mainPc \in {"wait", "returned"}) =>
        ((runErrs = 0) <=> (\A j \in Jobs : jobOut[j] \in {"nil", "canceled"}))

\* C26 witness: run has returned an error made of one job's panic, the
\* other two jobs having returned context.Canceled after the stop.
C26_Witness ==
    /\ mainPc = "returned" /\ runErrs = 1
    /\ jobOut["config watcher"] = "panic"
    /\ jobOut["rclgo"] = "canceled" /\ jobOut["diagnostics"] = "canceled"

\* -------------------------------- SpecUp: fileUploader.UploadBag, call by call
\* Number of bytes a segment file holds after its SQLite header.
MaxData == 2
\* Number of UploadBag calls made in one behaviour.
MaxCalls == 2

\* The two UploadBag variants of uploader.go: the earlier one hands the
\* opened file f to uploadFile, the later one the reader compressed.
Variants == {"f", "compressed"}

\* compressionNone, compressionGzip, compressionXz. Set and Parse reject
\* every other string, and the default is compressionNone.
Modes == {"none", "gzip", "xz"}

\* The modes a config message can give the uploader: with the earlier
\* compressionMode UnmarshalYAML lets only the three through; with the
\* later one any string arrives.
ModesGiven(variant) ==
    IF variant = "f" THEN Modes ELSE Modes \cup {"not supported"}

Bytes == {"a", "b"}

RECURSIVE BytesOfLen(_)
BytesOfLen(n) ==
    IF n = 0 THEN {<<>>}
    ELSE {Append(t, c) : t \in BytesOfLen(n - 1), c \in Bytes}

\* What a segment file holds: the SQLite header, then up to MaxData bytes.
FileData == UNION {{<<"S">> \o t : t \in BytesOfLen(n)} : n \in 0..MaxData}

\* What the messages table of the file gives to the SELECT: a row, no
\* row, or an error other than sql.ErrNoRows.
Tables == {"rows", "empty", "broken"}

MissingFile == [exists |-> FALSE, table |-> "broken", data |-> <<>>]

BagFiles ==
    {MissingFile} \cup
    {[exists |-> TRUE, table |-> t, data |-> d] : t \in Tables, d \in FileData}

\* Length of the run of equal bytes d starts with.
RunLen(d) ==
    CHOOSE k \in 1..Len(d) :
        /\ \A i \in 1..k : d[i] = d[1]
        /\ (k = Len(d) \/ d[k + 1] # d[1])

CountChar(n) == <<"1", "2", "3", "4", "5", "6", "7", "8", "9">>[n]

\* The compressed form of a byte sequence, as both writers produce it
\* after their header: each run of equal bytes as the byte and its length.
RECURSIVE packed(_)
packed(d) ==
    IF d = <<>> THEN <<>>
    ELSE <<d[1], CountChar(RunLen(d))>> \o packed(SubSeq(d, RunLen(d) + 1, Len(d)))

\* withCompression: the reader UploadBag calls compressed, read to its
\* end, the extension of the object name, and whether it returns the
\* error of its default branch, invalid compression mode.
withCompression(mode, src) ==
    CASE mode = "none" -> [rc |-> src, ext |-> "", err |-> FALSE]
      [] mode = "gzip" -> [rc |-> <<"gz">> \o packed(src), ext |-> ".gz", err |-> FALSE]
      [] mode = "xz"   -> [rc |-> <<"xz">> \o packed(src), ext |-> ".xz", err |-> FALSE]
      [] OTHER         -> [rc |-> <<>>, ext |-> "", err |-> TRUE]

\* The extension that names the encoding a byte stream is in, told from
\* its first bytes.
Encoding(body) ==
    IF body # <<>> /\ body[1] = "gz" THEN ".gz"
    ELSE IF body # <<>> /\ body[1] = "xz" THEN ".xz"
    ELSE ""

\* getRecordStartTime with the errors.Is(err, sql.ErrNoRows) test left out.
getRecordStartTimeAnyErr(file, ctxDone) ==
    IF ctxDone \/ file.table # "rows" THEN "query" ELSE "ok"

\* getRecordStartTime: QueryRowContext fails with the context's error when
\* the context is cancelled; sql.ErrNoRows becomes errEmptyBag; any other
\* error is returned as it is.
getRecordStartTime(file, ctxDone) ==
    IF ctxDone THEN "query"
    ELSE IF file.table = "empty" THEN "empty"
    ELSE IF file.table = "broken" THEN "query"
    ELSE "ok"

\* What HTTPClient.Do gives for the POST: status 0 stands for an error
\* with no response; json tells whether json.Unmarshal accepts the body.
Responses == [status : {0, 200, 500}, json : {"object", "malformed"}, url : {"", "u"}]

NoResponse == [status |-> 0, json |-> "malformed", url |-> ""]

\* requestUploadURL with the status test left out.
requestOKAnyStatus(resp) == resp.status # 0 /\ resp.json = "object"

\* requestUploadURL returns the URL: Do and ReadAll gave no error, the
\* body was unmarshalled and the status is 200.
requestOK(resp) == resp.status # 0 /\ resp.json = "object" /\ resp.status = 200

\* The bytes the PUT request reads from the reader UploadBag hands to
\* uploadFile. In the variant handing f the copy goroutine of the pipe
\* reads the same file concurrently and has taken the first k bytes.
putBody(variant, mode, data, k) ==
    IF variant = "compressed" THEN withCompression(mode, data).rc
    ELSE IF mode = "none" THEN data
    ELSE SubSeq(data, k + 1, Len(data))

UpInit ==
    /\ QIdle
    /\ UMIdle
    /\ CWIdle
    /\ RecIdle
    /\ MainIdle
    /\ YamlIdle
    /\ AuxIdle
    /\ upVariant \in Variants
    /\ upMode = "none"
    /\ upFile = MissingFile
    /\ upCtxDone = FALSE
    /\ upPc = "idle"
    /\ upName = ""
    /\ upBody = <<>>
    /\ upPosts = 0
    /\ upPuts = 0
    /\ upResp = NoResponse
    /\ upPutStatus = 0
    /\ upResult = "none"
    /\ upRemoved = FALSE
    /\ upCalls = 0

\* A worker took a bag from the queue and calls m.uploadBag(ctx, bag); the
\* uploader carries the mode of the last WithCompression.
UpBegin(file, mode) ==
    /\ upPc = "idle"
    /\ mode \in ModesGiven(upVariant)
    /\ upCalls < MaxCalls
    /\ upCalls' = upCalls + 1
    /\ upFile' = file
    /\ upMode' = mode
    /\ upPc' = "open"
    /\ upName' = ""
    /\ upBody' = <<>>
    /\ upPosts' = 0
    /\ upPuts' = 0
    /\ upResp' = NoResponse
    /\ upPutStatus' = 0
    /\ upResult' = "none"
    /\ upRemoved' = FALSE
    /\ UNCHANGED <<upVariant, upCtxDone>>
    /\ UNCHANGED <<qvars, umvars, cwvars, recvars, mainvars, yamlvars, auxvars>>

\* UploadBag up to the object name: os.Open, withCompression,
\* getRecordStartTime, name := time + ".db3" + ext.
UploadBagOpen ==
    /\ upPc = "open"
    /\ IF ~upFile.exists
       THEN /\ upResult' = "open"
            /\ upPc' = "returned"
            /\ UNCHANGED upName
       ELSE IF withCompression(upMode, upFile.data).err
       THEN /\ upResult' = "mode"
            /\ upPc' = "returned"
            /\ UNCHANGED upName
       ELSE IF getRecordStartTime(upFile, upCtxDone) # "ok"
       THEN /\ upResult' = getRecordStartTime(upFile, upCtxDone)
            /\ upPc' = "returned"
            /\ UNCHANGED upName
       ELSE /\ upName' = withCompression(upMode, upFile.data).ext
            /\ upPc' = "post"
            /\ UNCHANGED upResult
    /\ UNCHANGED <<upVariant, upMode, upFile, upCtxDone, upBody, upPosts, upPuts,
                   upResp, upPutStatus, upRemoved, upCalls>>
    /\ UNCHANGED <<qvars, umvars, cwvars, recvars, mainvars, yamlvars, auxvars>>

\* requestUploadURL: the token is made, the POST is sent once, and the
\* response is read, unmarshalled and its status tested.
requestUploadURL(tokenOk, resp) ==
    /\ upPc = "post"
    /\ IF ~tokenOk \/ upCtxDone
       THEN /\ upResult' = "url"
            /\ upPc' = "returned"
            /\ UNCHANGED <<upPosts, upResp>>
       ELSE /\ upPosts' = upPosts + 1
            /\ upResp' = resp
            /\ IF requestOK(resp)
               THEN /\ upPc' = "put"
                    /\ UNCHANGED upResult
               ELSE /\ upResult' = "url"
                    /\ upPc' = "returned"
    /\ UNCHANGED <<upVariant, upMode, upFile, upCtxDone, upName, upBody, upPuts,
                   upPutStatus, upRemoved, upCalls>>
    /\ UNCHANGED <<qvars, umvars, cwvars, recvars, mainvars, yamlvars, auxvars>>

\* uploadFile: the PUT is sent once to the returned URL with the reader it
\* was given as body; an empty URL or a cancelled context fails in Do with
\* nothing sent. Status 0 stands for an error with no response.
uploadFile(status, k) ==
    /\ upPc = "put"
    /\ k <= Len(upFile.data)
    /\ IF upResp.url = "" \/ upCtxDone
       THEN /\ upResult' = "put"
            /\ UNCHANGED <<upPuts, upBody, upPutStatus>>
       ELSE /\ upPuts' = upPuts + 1
            /\ upBody' = putBody(upVariant, upMode, upFile.data, k)
            /\ upPutStatus' = status
            /\ upResult' = IF status = 200 THEN "ok" ELSE "put"
    /\ upPc' = "returned"
    /\ UNCHANGED <<upVariant, upMode, upFile, upCtxDone, upName, upPosts, upResp,
                   upRemoved, upCalls>>
    /\ UNCHANGED <<qvars, umvars, cwvars, recvars, mainvars, yamlvars, auxvars>>

\* StartWorker after uploadBag returned: removeBagFiles on success and on
\* errEmptyBag, nothing else on any other error.
UpWorker ==
    /\ upPc = "returned"
    /\ upRemoved' = ShouldRemove(upResult)
    /\ upPc' = "idle"
    /\ UNCHANGED <<upVariant, upMode, upFile, upCtxDone, upName, upBody, upPosts,
                   upPuts, upResp, upPutStatus, upResult, upCalls>>
    /\ UNCHANGED <<qvars, umvars, cwvars, recvars, mainvars, yamlvars, auxvars>>

\* The context the worker runs under is cancelled.
UpCancel ==
    /\ ~upCtxDone
    /\ upCtxDone' = TRUE
    /\ UNCHANGED <<upVariant, upMode, upFile, upPc, upName, upBody, upPosts, upPuts,
                   upResp, upPutStatus, upResult, upRemoved, upCalls>>
    /\ UNCHANGED <<qvars, umvars, cwvars, recvars, mainvars, yamlvars, auxvars>>

UpNext ==
    \/ \E file \in BagFiles, mode \in ModesGiven("compressed") : UpBegin(file, mode)
    \/ UploadBagOpen
    \/ \E tokenOk \in BOOLEAN, resp \in Responses : requestUploadURL(tokenOk, resp)
    \/ \E status \in {0, 200, 403}, k \in 0..(MaxData + 1) : uploadFile(status, k)
    \/ UpWorker
    \/ UpCancel

SpecUp == UpInit /\ [][UpNext]_vars

\* C18: the body the PUT carries is the output of the compression selected
\* by the uploader's mode applied to the file, and the extension of the
\* object name ("", .gz, .xz) names the encoding of the bytes sent.
C18_BodyIsCompressedStream ==
    (upPuts > 0) =>
        /\ upBody = withCompression(upMode, upFile.data).rc
        /\ upName = Encoding(upBody)

\* C19 as stated: whenever UploadBag returns for a file whose messages
\* table has no rows it returns errEmptyBag with no POST and no PUT sent,
\* and the worker removes the bag files exactly as after a success.
C19_EmptyBagAlways ==
    [][/\ (upPc = "open" /\ upPc' = "returned" /\ upFile.exists
           /\ upFile.table = "empty")
          => (upResult' = "empty" /\ upPosts' = 0 /\ upPuts' = 0)
       /\ (upPc = "returned" /\ upPc' = "idle" /\ upResult = "empty")
          => upRemoved']_vars

\* C19 amended: when the uploader's mode is one of none, gzip, xz and the
\* context is not cancelled at the time the table is read, UploadBag
\* returns errEmptyBag for a file whose messages table has no rows, with
\* no POST and no PUT sent, and the worker then removes the bag files, as
\* it does after a success and after no other result.
C19_EmptyBagCleanedUp ==
    [][/\ (upPc = "open" /\ upPc' = "returned" /\ upFile.exists
           /\ upFile.table = "empty" /\ ~upCtxDone /\ upMode \in Modes)
          => (upResult' = "empty" /\ upPosts' = 0 /\ upPuts' = 0)
       /\ (upPc = "returned" /\ upPc' = "idle")
          => (upRemoved' = (upResult \in {"ok", "empty"}))]_vars

\* C19 witness: a call on a file with an empty messages table returned
\* errEmptyBag with nothing sent, and the worker removed the bag files.
C19_Witness ==
    /\ upPc = "idle" /\ upFile.exists /\ upFile.table = "empty"
    /\ upResult = "empty" /\ upRemoved /\ upPosts = 0 /\ upPuts = 0

\* C20: one UploadBag call sends at most one POST and at most one PUT, the
\* PUT only after the POST was answered with status 200 and a body that is
\* well-formed JSON; it returns success only with status 200 on both, and
\* a failed request ends the call without being sent again.
C20_OnePostOnePut ==
    /\ upPosts <= 1 /\ upPuts <= 1
    /\ (upPuts = 1) =>
          (upPosts = 1 /\ upResp.status = 200 /\ upResp.json = "object")
    /\ (upResult = "ok") =>
          (upPuts = 1 /\ upResp.status = 200 /\ upPutStatus = 200)
    /\ (upResult \notin {"none", "ok"}) => (upPc \in {"returned", "idle"})

\* C20 witness: a call in which the POST was answered with 200 and the PUT
\* with 403 has returned the failure, one request of each kind sent.
C20_Witness ==
    /\ upPc = "returned" /\ upResult = "put"
    /\ upPosts = 1 /\ upPuts = 1 /\ upResp.status = 200 /\ upPutStatus = 403

\* ------------------- SpecYaml: a config message parsed and applied
\* Longest scalar string the topics key carries.
MaxStr == 3
\* Longest list the topics key carries.
MaxList == 2
\* Number of writers startRecorder spawns for one config (start and retries).
MaxSpawns == 2

\* Strings are sequences of characters: "*", the comma, and letters;
\* <<"a">> and <<"b">> stand for the topics /test/a and /test/b.
RECURSIVE YamlStringsOfLen(_)
YamlStringsOfLen(n) ==
    IF n = 0 THEN {<<>>}
    ELSE {Append(t, c) : t \in YamlStringsOfLen(n - 1),
                         c \in {"*", ",", "a", "b", "l"}}

YamlStrings == UNION {YamlStringsOfLen(n) : n \in 0..MaxStr}

\* A config message as yaml.v3 decodes it: the value of topics (null, a
\* scalar string, a list whose elements are strings or not, or a number),
\* of max_upload_count and of compression_mode. A key that is missing has
\* the default parseUpdatableConfigYAML fills in.
YamlMessages ==
    [topics : [kind : {"null", "int"}, s : {<<>>}, items : {<<>>}]
                \cup [kind : {"str"}, s : YamlStrings, items : {<<>>}]
                \cup UNION {[kind : {"list"}, s : {<<>>},
                             items : [1..n -> [isStr : {TRUE}, s : {<<"a">>, <<"b">>}]
                                              \cup {[isStr |-> FALSE, s |-> <<>>]}]] :
                            n \in 0..MaxList},
     count : (0 - 1)..MaxPermits,
     mode : {"none", "gzip", "xz", "not supported"}]

\* strings.Split(s, ",").
RECURSIVE Split(_)
Split(s) ==
    IF \A i \in 1..Len(s) : s[i] # ","
    THEN <<s>>
    ELSE LET i == CHOOSE k \in 1..Len(s) :
                      s[k] = "," /\ \A j \in 1..(k - 1) : s[j] # ","
         IN  <<SubSeq(s, 1, i - 1)>> \o Split(SubSeq(s, i + 1, Len(s)))

parseCommaSeparatedList(s) == IF s = <<>> THEN <<>> ELSE Split(s)

\* topicList.Set: "" is none, "*" is all, any other string is split at
\* its commas; there is no error.
topicListSet(val) ==
    IF val = <<>> THEN [All |-> FALSE, Topics |-> <<>>]
    ELSE IF val = <<"*">> THEN [All |-> TRUE, Topics |-> <<>>]
    ELSE [All |-> FALSE, Topics |-> parseCommaSeparatedList(val)]

TopicsErrMsg == "'topics' must be an empty string, '*' or a list of strings"

\* topicList.UnmarshalYAML and Parse: the topic list and the error ("" for
\* none). yaml.v3 does not call UnmarshalYAML on a null value: the field
\* keeps its zero value.
topicListParse(val) ==
    CASE val.kind = "null" -> [err |-> "", tl |-> [All |-> FALSE, Topics |-> <<>>]]
      [] val.kind = "str"  -> [err |-> "", tl |-> topicListSet(val.s)]
      [] val.kind = "list" ->
            IF \A i \in 1..Len(val.items) : val.items[i].isStr
            THEN [err |-> "",
                  tl |-> [All |-> FALSE,
                          Topics |-> [i \in 1..Len(val.items) |-> val.items[i].s]]]
            ELSE [err |-> TopicsErrMsg, tl |-> [All |-> FALSE, Topics |-> <<>>]]
      [] OTHER -> [err |-> TopicsErrMsg, tl |-> [All |-> FALSE, Topics |-> <<>>]]

\* Decoding compression_mode into the config struct: the earlier
\* compressionMode has UnmarshalYAML, which calls Set; the later one has
\* Set and Parse only, so yaml.v3 stores the scalar as it is. The result
\* is the error ("" for none); the one unknown value a message carries
\* is "not supported".
compressionModeUnmarshal(variant, m) ==
    IF variant = "early" /\ m \notin {"none", "gzip", "xz"}
    THEN "unknown compression mode: not supported"
    ELSE ""

CountErrMsg == "'max-upload-count' must be non-negative"

\* parseUpdatableConfigYAML with the test of MaxUploadCount left out.
parseUpdatableConfigYAMLNoCheck(variant, msg) ==
    IF topicListParse(msg.topics).err # ""
    THEN [err |-> topicListParse(msg.topics).err, ok |-> FALSE]
    ELSE IF compressionModeUnmarshal(variant, msg.mode) # ""
    THEN [err |-> compressionModeUnmarshal(variant, msg.mode), ok |-> FALSE]
    ELSE [err |-> "", ok |-> TRUE]

\* parseUpdatableConfigYAML: yaml.Unmarshal into the struct, then the test
\* of MaxUploadCount; the error, and whether a config is returned.
parseUpdatableConfigYAML(variant, msg) ==
    IF topicListParse(msg.topics).err # ""
    THEN [err |-> topicListParse(msg.topics).err, ok |-> FALSE]
    ELSE IF compressionModeUnmarshal(variant, msg.mode) # ""
    THEN [err |-> compressionModeUnmarshal(variant, msg.mode), ok |-> FALSE]
    ELSE IF msg.count < 0
    THEN [err |-> CountErrMsg, ok |-> FALSE]
    ELSE [err |-> "", ok |-> TRUE]

\* What the recorder started by newCommand records of topic t: everything
\* with --all (Topics empty), else the topics named after "--".
recorded(rec, t) ==
    rec.running /\ (rec.Topics = <<>> \/ \E i \in 1..Len(rec.Topics) : rec.Topics[i] = t)

\* A config message arrives while the initial config, recording /test/a
\* with some permit count and mode none, is applied.
YamlInit ==
    /\ QIdle
    /\ UMIdle
    /\ CWIdle
    /\ RecIdle
    /\ MainIdle
    /\ UpIdle
    /\ AuxIdle
    /\ yVariant \in {"early", "later"}
    /\ yMsg \in YamlMessages
    /\ yPc = "received"
    /\ yResult = [err |-> "", ok |-> FALSE]
    /\ yRecorder = [running |-> TRUE, Topics |-> <<<<"a">>>>]
    /\ yCount \in 0..MaxPermits
    /\ yMode = "none"
    /\ ySpawned = <<>>

\* onUpdate: the message is parsed; on an error it is dropped, else the
\* recording is stopped and the config handed to the main loop.
YamlParse ==
    /\ yPc = "received"
    /\ yResult' = parseUpdatableConfigYAML(yVariant, yMsg)
    /\ IF parseUpdatableConfigYAML(yVariant, yMsg).ok
       THEN /\ yPc' = "queued"
            /\ yRecorder' = [yRecorder EXCEPT !.running = FALSE]
       ELSE /\ yPc' = "dropped"
            /\ UNCHANGED yRecorder
    /\ UNCHANGED <<yVariant, yMsg, yCount, yMode, ySpawned>>
    /\ UNCHANGED <<qvars, umvars, cwvars, recvars, mainvars, upvars, auxvars>>

\* applyConfig with every config starting the recorder: a plausible slip.
applyConfigRecorderAlwaysRuns(tl) ==
    [running |-> TRUE, Topics |-> IF tl.All THEN <<>> ELSE tl.Topics]

\* applyConfig, the recorder's part: Topics is nil for all, else the list,
\* and the recorder is to be started when topics is all or a list that is
\* not empty.
applyConfigRecorder(tl) ==
    [running |-> tl.All \/ tl.Topics # <<>>,
     Topics |-> IF tl.All THEN <<>> ELSE tl.Topics]

\* newCommand, the topic arguments: --all when Topics is empty, else "--"
\* and the topics.
newCommand(rec) ==
    IF Len(rec.Topics) = 0
    THEN [all |-> TRUE, topics |-> <<>>]
    ELSE [all |-> FALSE, topics |-> rec.Topics]

\* startRecorder with the config: applyConfig gives the upload manager the
\* count and the mode and the recorder its topics, and when applyConfig
\* says so Recorder.Start spawns the writer newCommand builds.
startRecorderYaml ==
    /\ yCount' = yMsg.count
    /\ yMode' = yMsg.mode
    /\ yRecorder' = applyConfigRecorder(topicListParse(yMsg.topics).tl)
    /\ ySpawned' = IF yRecorder'.running
                   THEN Append(ySpawned, newCommand(yRecorder'))
                   ELSE ySpawned

\* Run, the config case: the config is taken from nextConfig and
\* startRecorder is called with it.
YamlApply ==
    /\ yPc = "queued"
    /\ yPc' = "applied"
    /\ startRecorderYaml
    /\ UNCHANGED <<yVariant, yMsg, yResult>>
    /\ UNCHANGED <<qvars, umvars, cwvars, recvars, mainvars, upvars, auxvars>>

\* Run, the retry case: the writer stopped with an error, the timer fired
\* and startRecorder is called again with currentConfig.
YamlRetry ==
    /\ yPc = "applied"
    /\ yRecorder.running
    /\ Len(ySpawned) < MaxSpawns
    /\ startRecorderYaml
    /\ UNCHANGED <<yVariant, yMsg, yPc, yResult>>
    /\ UNCHANGED <<qvars, umvars, cwvars, recvars, mainvars, upvars, auxvars>>

YamlNext ==
    \/ YamlParse
    \/ YamlApply
    \/ YamlRetry

SpecYaml == YamlInit /\ [][YamlNext]_vars

\* C22: parsing the topics key gives none for null and the empty string,
\* all for "*", the explicit list for a list of strings, and the topics
\* error for every other value, any other scalar string included.
C22_TopicsParse ==
    LET v == yMsg.topics
        r == topicListParse(v)
    IN  (yPc # "received") =>
        CASE v.kind = "null" \/ (v.kind = "str" /\ v.s = <<>>) ->
                r = [err |-> "", tl |-> [All |-> FALSE, Topics |-> <<>>]]
          [] v.kind = "str" /\ v.s = <<"*">> ->
                r = [err |-> "", tl |-> [All |-> TRUE, Topics |-> <<>>]]
          [] v.kind = "list" /\ \A i \in 1..Len(v.items) : v.items[i].isStr ->
                r = [err |-> "",
                     tl |-> [All |-> FALSE,
                             Topics |-> [i \in 1..Len(v.items) |-> v.items[i].s]]]
          [] OTHER -> r.err = TopicsErrMsg

\* C23: the message topics: all is accepted, and the recorder started for
\* it records both /test/a and /test/b.
C23_TopicsAllRecordsBoth ==
    (yMsg.topics = [kind |-> "str", s |-> <<"a", "l", "l">>, items |-> <<>>]
     /\ yMsg.count >= 0 /\ yMsg.mode = "none")
    => /\ (yPc # "received") => yResult.ok
       /\ (yPc = "applied") =>
             (recorded(yRecorder, <<"a">>) /\ recorded(yRecorder, <<"b">>))

\* C24: a config with a negative max_upload_count is rejected, with the
\* max-upload-count error when the YAML itself decodes, and no config is
\* returned; so the permit count given to the upload manager is never
\* negative.
C24_NegativeCountRejected ==
    /\ (yPc # "received" /\ yMsg.count < 0) =>
          /\ ~yResult.ok /\ yPc = "dropped"
          /\ yResult.err \in {CountErrMsg, TopicsErrMsg,
                             "unknown compression mode: not supported"}
          /\ (topicListParse(yMsg.topics).err = ""
              /\ compressionModeUnmarshal(yVariant, yMsg.mode) = "")
             => yResult.err = CountErrMsg
    /\ yCount >= 0

\* C24 witness: a message whose only fault is max_upload_count: -1 was
\* dropped with the max-upload-count error; recorder and count are as
\* before.
C24_Witness ==
    /\ yPc = "dropped" /\ yMsg.count < 0 /\ yMsg.topics.kind = "null"
    /\ yMsg.mode = "gzip" /\ yResult.err = CountErrMsg
    /\ yRecorder.running /\ yCount = MaxPermits

\* C25: a message whose compression_mode is not none, gzip or xz is
\* rejected with the unknown-compression-mode error and not applied: the
\* mode given to the upload manager's uploader is always one of the three.
C25_ModeAlwaysKnown ==
    /\ (yPc # "received" /\ yMsg.mode \notin {"none", "gzip", "xz"}
        /\ yMsg.count >= 0) =>
          /\ ~yResult.ok
          /\ (topicListParse(yMsg.topics).err = "")
             => yResult.err = "unknown compression mode: not supported"
    /\ yMode \in {"none", "gzip", "xz"}

\* C38: every writer spawned for the applied config carries --all exactly
\* when the config's topics is all; for an explicit list it carries "--"
\* and that list, which is not empty; on the first start and on a retry.
C38_AllFlagIffTopicsAll ==
    LET tl == topicListParse(yMsg.topics).tl
    IN  \A i \in 1..Len(ySpawned) :
            /\ ySpawned[i].all <=> tl.All
            /\ ~tl.All => (ySpawned[i].topics = tl.Topics /\ tl.Topics # <<>>)
            /\ tl.All => ySpawned[i].topics = <<>>

\* C38 witness: the config topics: "*" was applied and the writer was
\* spawned with --all, at the start and again at the retry.
C38_Witness ==
    /\ yPc = "applied"
    /\ yMsg.topics.kind = "str" /\ yMsg.topics.s = <<"*">>
    /\ Len(ySpawned) = MaxSpawns
    /\ \A i \in 1..Len(ySpawned) : ySpawned[i].all

\* ------------------------- SpecLock: uploadManager.mutex, section by section
\* The tasks that touch uploadManager.queue and uploadManager.workerCount:
\* main (LoadExistingBags, before it starts the jobs), the config watcher
\* (SetWorkerCount, StartWorker), the recorder's onBagReady goroutines
\* (AddBag) and the workers AddBag spawns (StartWorker). A task steps into a
\* mutex section, does the work of the section, and steps out.

\* Number of mutex sections entered in one behaviour.
MaxLockOps == 3

LkTasks == {"watcher", "recorder", "worker"}

\* The functions of the upload manager a task calls.
LkCalls(t) ==
    IF t = "watcher" THEN {"SetWorkerCount", "StartWorker"}
    ELSE IF t = "recorder" THEN {"AddBag"}
    ELSE {"StartWorker"}

\* What one filepath.Glob of addGlob matches: the segment files a previous
\* run left, at most one here.
LkGlobs == {<<>>} \cup {<<Bag(d, n, FALSE)>> : d \in QDirs, n \in 0..MaxNumber}

\* Everything a step of SpecLock leaves alone.
lkOthers == <<qvars, umvars, cwvars, recvars, mainvars, upvars, yamlvars, stvars,
              wcvars, ppvars>>

LkOthersIdle ==
    /\ QIdle
    /\ UMIdle
    /\ CWIdle
    /\ RecIdle
    /\ MainIdle
    /\ UpIdle
    /\ YamlIdle
    /\ StIdle
    /\ WcIdle
    /\ PpIdle

\* run has made the upload manager and is about to call LoadExistingBags;
\* no job runs yet.
LkInit ==
    /\ LkOthersIdle
    /\ mutex = "none"
    /\ lkPc = [t \in LkTasks \cup {"main"} |-> IF t = "main" THEN "glob1" ELSE "off"]
    /\ lkQueue = <<>>
    /\ lkSem = 1
    /\ lkActor = "none"
    /\ lkOps = 0
    /\ \E m1 \in LkGlobs, m2 \in LkGlobs :
        /\ (m1 # <<>> /\ m2 # <<>>) => m1[1].dir # m2[1].dir
        /\ lkMatches = <<m1, m2>>

\* addGlob: every match that is a segment file is appended to m.queue. The
\* function takes no lock.
LkAddGlob ==
    /\ lkPc["main"] \in {"glob1", "glob2"}
    /\ lkQueue' = lkQueue \o lkMatches[IF lkPc["main"] = "glob1" THEN 1 ELSE 2]
    /\ lkPc' = [lkPc EXCEPT !["main"] = IF lkPc["main"] = "glob1" THEN "glob2" ELSE "init"]
    /\ lkActor' = "main"
    /\ UNCHANGED <<mutex, lkSem, lkOps, lkMatches>>
    /\ UNCHANGED lkOthers

\* LoadExistingBags ends with heap.Init(&m.queue), again with no lock; run
\* then starts its jobs.
LkHeapInit ==
    /\ lkPc["main"] = "init"
    /\ lkQueue' = heapInit(lkQueue)
    /\ lkPc' = [t \in LkTasks \cup {"main"} |-> IF t = "main" THEN "done" ELSE "idle"]
    /\ lkActor' = "main"
    /\ UNCHANGED <<mutex, lkSem, lkOps, lkMatches>>
    /\ UNCHANGED lkOthers

\* m.mutex.Lock() at the head of SetWorkerCount, AddBag and of the closure
\* of StartWorker: it returns once no task holds the mutex.
LkLock(t, call) ==
    /\ lkPc[t] = "idle"
    /\ call \in LkCalls(t)
    /\ lkOps < MaxLockOps
    /\ mutex = "none"
    /\ mutex' = t
    /\ lkPc' = [lkPc EXCEPT ![t] = call]
    /\ lkOps' = lkOps + 1
    /\ lkActor' = t
    /\ UNCHANGED <<lkQueue, lkSem, lkMatches>>
    /\ UNCHANGED lkOthers

\* SetWorkerCount: m.workerCount = semaphore.NewWeighted(n).
LkSetWorkerCount(t) ==
    /\ lkPc[t] = "SetWorkerCount"
    /\ lkSem' = lkSem + 1
    /\ lkPc' = [lkPc EXCEPT ![t] = "unlock"]
    /\ lkActor' = t
    /\ UNCHANGED <<mutex, lkQueue, lkOps, lkMatches>>
    /\ UNCHANGED lkOthers

\* AddBag: heap.Push(&m.queue, bag).
LkAddBag(t, bag) ==
    /\ lkPc[t] = "AddBag"
    /\ lkQueue' = heapPush(lkQueue, bag)
    /\ lkPc' = [lkPc EXCEPT ![t] = "unlock"]
    /\ lkActor' = t
    /\ UNCHANGED <<mutex, lkSem, lkOps, lkMatches>>
    /\ UNCHANGED lkOthers

\* The closure of StartWorker: nextBag if TryAcquire gave a permit.
LkNextBag(t, got) ==
    /\ lkPc[t] = "StartWorker"
    /\ lkQueue' = IF got THEN nextBagQueue(lkQueue) ELSE lkQueue
    /\ lkPc' = [lkPc EXCEPT ![t] = "unlock"]
    /\ lkActor' = t
    /\ UNCHANGED <<mutex, lkSem, lkOps, lkMatches>>
    /\ UNCHANGED lkOthers

\* The deferred m.mutex.Unlock().
LkUnlock(t) ==
    /\ lkPc[t] = "unlock"
    /\ mutex' = "none"
    /\ lkPc' = [lkPc EXCEPT ![t] = "idle"]
    /\ lkActor' = t
    /\ UNCHANGED <<lkQueue, lkSem, lkOps, lkMatches>>
    /\ UNCHANGED lkOthers

LkNext ==
    \/ LkAddGlob
    \/ LkHeapInit
    \/ \E t \in LkTasks, call \in {"SetWorkerCount", "StartWorker", "AddBag"} : LkLock(t, call)
    \/ \E t \in LkTasks : LkSetWorkerCount(t)
    \/ \E t \in LkTasks, d \in QDirs, n \in 0..MaxNumber : LkAddBag(t, Bag(d, n, TRUE))
    \/ \E t \in LkTasks, got \in BOOLEAN : LkNextBag(t, got)
    \/ \E t \in LkTasks : LkUnlock(t)

SpecLock == LkInit /\ [][LkNext]_vars

\* C32: every step that changes the upload queue or replaces the semaphore
\* is taken by the task that holds the manager's mutex.
C32_MutationsUnderMutex ==
    [][(lkQueue' # lkQueue \/ lkSem' # lkSem) => mutex = lkActor']_vars

\* ----------------------- SpecStart: missionDataRecorder.Start and its process
\* One call of Start from cmd.Start on: the writer process, the goroutine
\* exec.CommandContext runs for the command's context, the stop goroutine
\* of Start, cmd.Wait and the two channels stopped and stopErr.

\* The exit statuses a writer ends with on its own or on an interrupt.
Statuses == {0, 1, 2}

\* A signal that ended the process: ExitCode() is -1.
Signalled == 0 - 1

stOthers == <<qvars, umvars, cwvars, recvars, mainvars, upvars, yamlvars, lkvars,
              wcvars, ppvars>>

\* Start has made the directory and the watcher and is about to call
\* cmd.Start.
StInit ==
    /\ QIdle
    /\ UMIdle
    /\ CWIdle
    /\ RecIdle
    /\ MainIdle
    /\ UpIdle
    /\ YamlIdle
    /\ LkIdle
    /\ WcIdle
    /\ PpIdle
    /\ stPc = "cmdStart"
    /\ stCtxDone = FALSE
    /\ stProc = "none"
    /\ stStatus = 0
    /\ stReaped = FALSE
    /\ stSig = <<>>
    /\ stG1 = "off"
    /\ stG2 = "off"
    /\ stStopped = 0
    /\ stStopErr = <<>>
    /\ stResult = "none"

\* os.Process.Signal and Kill reach the process until Wait has returned;
\* after that they fail with "os: process already finished".
sigReaches(reaped) == ~reaped

\* Start's test of what cmd.Wait returned: nil for status 0, an ExitError
\* otherwise, of which only exit code 2 is let through.
waitPasses(status) == status = 0 \/ status = 2

\* The context given to Start is cancelled.
StCancel ==
    /\ ~stCtxDone
    /\ stPc # "returned"
    /\ stCtxDone' = TRUE
    /\ UNCHANGED <<stPc, stProc, stStatus, stReaped, stSig, stG1, stG2, stStopped,
                   stStopErr, stResult>>
    /\ UNCHANGED stOthers

\* cmd.Start: with the context done it returns its error and Start
\* returns; otherwise the process runs, exec starts the goroutine that
\* watches the context, and Start starts its stop goroutine.
StCmdStart ==
    /\ stPc = "cmdStart"
    /\ IF stCtxDone
       THEN /\ stPc' = "returned"
            /\ stResult' = "error"
            /\ UNCHANGED <<stProc, stG1, stG2>>
       ELSE /\ stPc' = "wait"
            /\ stProc' = "running"
            /\ stG1' = "select"
            /\ stG2' = "select"
            /\ UNCHANGED stResult
    /\ UNCHANGED <<stCtxDone, stStatus, stReaped, stSig, stStopped, stStopErr>>
    /\ UNCHANGED stOthers

\* The goroutine of exec.CommandContext finds the context done and calls
\* c.Process.Kill().
StCtxKill ==
    /\ stG1 = "select"
    /\ stCtxDone
    /\ stG1' = "done"
    /\ stSig' = Append(stSig, [sig |-> "kill", by |-> "CommandContext",
                               ok |-> sigReaches(stReaped)])
    /\ IF sigReaches(stReaped) /\ stProc = "running"
       THEN stProc' = "exited" /\ stStatus' = Signalled
       ELSE UNCHANGED <<stProc, stStatus>>
    /\ UNCHANGED <<stPc, stCtxDone, stReaped, stG2, stStopped, stStopErr, stResult>>
    /\ UNCHANGED stOthers

\* The goroutine of exec.CommandContext finds waitDone closed and ends.
StCtxWaitDone ==
    /\ stG1 = "select"
    /\ stReaped
    /\ stG1' = "done"
    /\ UNCHANGED <<stPc, stCtxDone, stProc, stStatus, stReaped, stSig, stG2,
                   stStopped, stStopErr, stResult>>
    /\ UNCHANGED stOthers

\* The stop goroutine takes ctx.Done: it signals os.Interrupt; if that
\* fails it kills the process and sends the error, else it sends nil.
\* delivered is whether the system accepts the signal for a live process.
StStopOnCancel(delivered) ==
    /\ stG2 = "select"
    /\ stCtxDone
    /\ stG2' = "done"
    /\ IF sigReaches(stReaped) /\ delivered
       THEN /\ stSig' = Append(stSig, [sig |-> "interrupt", by |-> "Start", ok |-> TRUE])
            /\ stStopErr' = <<"nil">>
            /\ UNCHANGED <<stProc, stStatus>>
       ELSE /\ stSig' = stSig \o
                  <<[sig |-> "interrupt", by |-> "Start", ok |-> FALSE],
                    [sig |-> "kill", by |-> "Start", ok |-> sigReaches(stReaped)]>>
            /\ stStopErr' = <<"err">>
            /\ IF sigReaches(stReaped) /\ stProc = "running"
               THEN stProc' = "exited" /\ stStatus' = Signalled
               ELSE UNCHANGED <<stProc, stStatus>>
    /\ UNCHANGED <<stPc, stCtxDone, stReaped, stG1, stStopped, stResult>>
    /\ UNCHANGED stOthers

\* The stop goroutine takes a value of stopped: it kills the process and
\* sends nil.
StStopOnStopped ==
    /\ stG2 = "select"
    /\ stStopped > 0
    /\ stStopped' = stStopped - 1
    /\ stG2' = "done"
    /\ stSig' = Append(stSig, [sig |-> "kill", by |-> "stopped", ok |-> sigReaches(stReaped)])
    /\ stStopErr' = <<"nil">>
    /\ IF sigReaches(stReaped) /\ stProc = "running"
       THEN stProc' = "exited" /\ stStatus' = Signalled
       ELSE UNCHANGED <<stProc, stStatus>>
    /\ UNCHANGED <<stPc, stCtxDone, stReaped, stG1, stResult>>
    /\ UNCHANGED stOthers

\* The writer exits, on its own or on an interrupt it got, with a status.
StProcExits(status) ==
    /\ stProc = "running"
    /\ stProc' = "exited"
    /\ stStatus' = status
    /\ UNCHANGED <<stPc, stCtxDone, stReaped, stSig, stG1, stG2, stStopped,
                   stStopErr, stResult>>
    /\ UNCHANGED stOthers

\* cmd.Wait returns. On an error that is not exit code 2 Start returns it
\* and its deferred function sends on stopped; otherwise Start sends on
\* stopped and goes on to read stopErr.
StWaitReturns ==
    /\ stPc = "wait"
    /\ stProc = "exited"
    /\ stReaped' = TRUE
    /\ stStopped' = stStopped + 1
    /\ IF waitPasses(stStatus)
       THEN stPc' = "recv" /\ UNCHANGED stResult
       ELSE stPc' = "returned" /\ stResult' = "error"
    /\ UNCHANGED <<stCtxDone, stProc, stStatus, stSig, stG1, stG2, stStopErr>>
    /\ UNCHANGED stOthers

\* Start reads stopErr and returns it wrapped, or nil; the deferred
\* function sends on stopped once more.
StRecvStopErr ==
    /\ stPc = "recv"
    /\ Len(stStopErr) = 1
    /\ stStopErr' = <<>>
    /\ stResult' = IF stStopErr[1] = "nil" THEN "nil" ELSE "error"
    /\ stStopped' = stStopped + 1
    /\ stPc' = "returned"
    /\ UNCHANGED <<stCtxDone, stProc, stStatus, stReaped, stSig, stG1, stG2>>
    /\ UNCHANGED stOthers

StNext ==
    \/ StCancel
    \/ StCmdStart
    \/ StCtxKill
    \/ StCtxWaitDone
    \/ \E delivered \in BOOLEAN : StStopOnCancel(delivered)
    \/ StStopOnStopped
    \/ \E status \in Statuses : StProcExits(status)
    \/ StWaitReturns
    \/ StRecvStopErr

SpecStart == StInit /\ [][StNext]_vars

\* C34: once Start has returned after its writer exited, it returned nil
\* exactly if the exit status was 0 or 2; and a kill that follows the
\* cancellation of the context is sent only after an interrupt that could
\* not be delivered.
C34_ExitStatusAndInterruptFirst ==
    /\ (stPc = "returned" /\ stProc = "exited") =>
           (stResult = "nil" <=> stStatus \in {0, 2})
    /\ \A i \in 1..Len(stSig) :
           (stSig[i].sig = "kill" /\ stSig[i].by # "stopped") =>
               \E j \in 1..(i - 1) : stSig[j].sig = "interrupt" /\ ~stSig[j].ok

\* --------------------- SpecWC: fileUploader.WithCompression and the uploads
\* The fileUploader objects as a heap: an uploader is an index into wcObjs.
\* The upload manager holds one; SetConfig replaces it by what
\* WithCompression returns, and a worker calls UploadBag on the uploader
\* the manager held when the worker took its bag.

\* Number of SetConfig calls in one behaviour.
MaxSets == 2
\* Number of UploadBag calls started in one behaviour.
MaxFlights == 2

wcOthers == <<qvars, umvars, cwvars, recvars, mainvars, upvars, yamlvars, lkvars,
              stvars, ppvars>>

\* An in-place WithCompression: the receiver's field is set and the
\* receiver returned.
WithCompressionInPlace(objs, u, mode) ==
    [objs |-> [objs EXCEPT ![u].CompressionMode = mode], ref |-> u]

\* WithCompression: x := *u; x.CompressionMode = mode; return &x. The heap
\* after the call and the uploader returned.
WithCompression(objs, u, mode) ==
    [objs |-> Append(objs, [objs[u] EXCEPT !.CompressionMode = mode]),
     ref  |-> Len(objs) + 1]

\* run makes the one fileUploader from the static config and hands it to
\* the upload manager.
WcInit ==
    /\ QIdle
    /\ UMIdle
    /\ CWIdle
    /\ RecIdle
    /\ MainIdle
    /\ UpIdle
    /\ YamlIdle
    /\ LkIdle
    /\ StIdle
    /\ PpIdle
    /\ \E id \in {"d1", "d2"}, url \in {"u1", "u2"}, mode \in Modes :
        wcObjs = <<[DeviceID |-> id, BackendURL |-> url, CompressionMode |-> mode]>>
    /\ wcCur = 1
    /\ wcAsked = "none"
    /\ wcSets = 0
    /\ wcFlight = <<>>

\* SetConfig: the manager's uploader becomes uploader.WithCompression(mode).
WcSetConfig(mode) ==
    /\ wcSets < MaxSets
    /\ wcSets' = wcSets + 1
    /\ wcAsked' = mode
    /\ wcObjs' = WithCompression(wcObjs, wcCur, mode).objs
    /\ wcCur' = WithCompression(wcObjs, wcCur, mode).ref
    /\ UNCHANGED wcFlight
    /\ UNCHANGED wcOthers

\* A worker takes the manager's uploader with its bag and calls UploadBag
\* on it.
WcUploadStarts ==
    /\ Len(wcFlight) < MaxFlights
    /\ wcFlight' = Append(wcFlight,
                          [ref |-> wcCur, mode |-> wcObjs[wcCur].CompressionMode,
                           started |-> wcSets, used |-> "", at |-> 0])
    /\ UNCHANGED <<wcObjs, wcCur, wcAsked, wcSets>>
    /\ UNCHANGED wcOthers

\* UploadBag reaches u.withCompression(f), which reads u.CompressionMode.
WcUploadCompresses(k) ==
    /\ k \in 1..Len(wcFlight)
    /\ wcFlight[k].used = ""
    /\ wcFlight' = [wcFlight EXCEPT ![k].used = wcObjs[wcFlight[k].ref].CompressionMode,
                                    ![k].at = wcSets]
    /\ UNCHANGED <<wcObjs, wcCur, wcAsked, wcSets>>
    /\ UNCHANGED wcOthers

WcNext ==
    \/ \E mode \in Modes : WcSetConfig(mode)
    \/ WcUploadStarts
    \/ \E k \in 1..MaxFlights : WcUploadCompresses(k)

SpecWC == WcInit /\ [][WcNext]_vars

\* C35: WithCompression leaves every uploader made so far as it is and
\* returns a new one that equals the receiver except for CompressionMode,
\* which is the mode asked for; an upload compresses with the mode its
\* uploader had when the upload started, whatever SetConfig did since.
C35_WithCompressionCopies ==
    [][/\ \A i \in 1..Len(wcObjs) : wcObjs'[i] = wcObjs[i]
       /\ (wcSets' = wcSets + 1) =>
             /\ wcCur' # wcCur
             /\ wcObjs'[wcCur'] = [wcObjs[wcCur] EXCEPT !.CompressionMode = wcAsked']
       /\ \A k \in 1..Len(wcFlight') :
             wcFlight'[k].used \in {"", wcFlight'[k].mode}]_vars

\* C35 witness: an upload started with mode none before any SetConfig,
\* SetConfig then changed the mode to gzip, and the upload compressed after
\* that, still with none.
C35_Witness ==
    /\ wcObjs[wcCur].CompressionMode = "gzip"
    /\ \E k \in 1..Len(wcFlight) :
        /\ wcFlight[k].started = 0
        /\ wcFlight[k].mode = "none"
        /\ wcFlight[k].at >= 1
        /\ wcFlight[k].used = "none"

\* ------------------------ SpecPipe: the compressing pipe of the uploader
\* newPipe, pipe.copy, pipe.Read and pipe.Close with a gzip writer between
\* the source and an io.Pipe. The source is a number of chunks; the gzip
\* writer turns every chunk written into one Write on the pipe and its
\* Close into one more (the trailer). A Write on an io.Pipe returns when a
\* Read has taken the data or the read end is closed. ppVariant tells the
\* two pipes apart: the earlier one of withCompression with copyErrChan,
\* which is never made, and the later one with closeErrChan.

\* Number of chunks of the source.
MaxChunks == 2

ppOthers == <<qvars, umvars, cwvars, recvars, mainvars, upvars, yamlvars, lkvars,
              stvars, wcvars>>

\* What the consumer does with the pipe: read until Read returns an error
\* or end-of-stream, stop after at most one Read, or never read.
Plans == {"all", "early", "never"}

\* withCompression has made the pipe and started the copy goroutine.
PpInit ==
    /\ QIdle
    /\ UMIdle
    /\ CWIdle
    /\ RecIdle
    /\ MainIdle
    /\ UpIdle
    /\ YamlIdle
    /\ LkIdle
    /\ StIdle
    /\ WcIdle
    /\ ppVariant \in {"early", "later"}
    /\ ppN \in 0..MaxChunks
    /\ ppFailAt \in 0..MaxChunks
    /\ ppFailAt <= ppN
    /\ ppPlan \in Plans
    /\ ppProd = "copy"
    /\ ppCopied = 0
    /\ ppErr = ""
    /\ ppGzErr = ""
    /\ ppFlushed = FALSE
    /\ ppRClosed = FALSE
    /\ ppW = "open"
    /\ ppGot = 0
    /\ ppReadResult = ""
    /\ ppClose = "no"

\* Where the copy goroutine goes once io.Copy has returned. Earlier pipe:
\* p.copyErrChan <- err, a send on a nil channel. Later pipe: the deferred
\* function, which closes the modifier.
afterCopy(variant) == IF variant = "early" THEN "sendErr" ELSE "close"

\* p.pipeIn.CloseWithError(err): what the read end returns from then on.
closeWithError(err) == IF err = "" THEN "eof" ELSE err

\* io.Copy reads the next chunk of the source: at its end io.Copy returns
\* nil, on a read error it returns the error, otherwise it writes the chunk
\* to the gzip writer, which writes to the pipe.
ProdRead ==
    /\ ppProd = "copy"
    /\ IF ppFailAt = ppCopied + 1
       THEN ppErr' = "src" /\ ppProd' = afterCopy(ppVariant)
       ELSE IF ppCopied = ppN
       THEN ppErr' = "" /\ ppProd' = afterCopy(ppVariant)
       ELSE ppProd' = "write" /\ UNCHANGED ppErr
    /\ UNCHANGED <<ppVariant, ppN, ppFailAt, ppPlan, ppCopied, ppGzErr, ppFlushed,
                   ppRClosed, ppW, ppGot, ppReadResult, ppClose>>
    /\ UNCHANGED ppOthers

\* A Write on the pipe, of a chunk or of the trailer, fails because the
\* read end is closed: the gzip writer keeps the error, io.Copy returns
\* it, the Close of the modifier returns it.
ProdWriteFails ==
    /\ ppProd \in {"write", "flush"}
    /\ ppRClosed
    /\ ppGzErr' = "closed"
    /\ IF ppProd = "write"
       THEN ppErr' = "closed" /\ ppProd' = afterCopy(ppVariant)
       ELSE ppProd' = "finish" /\ UNCHANGED ppErr
    /\ UNCHANGED <<ppVariant, ppN, ppFailAt, ppPlan, ppCopied, ppFlushed, ppRClosed,
                   ppW, ppGot, ppReadResult, ppClose>>
    /\ UNCHANGED ppOthers

\* The deferred function of the later copy calls modifier.Close(): with an
\* error kept from a failed Write it returns at once, otherwise it writes
\* the trailer to the pipe.
ProdModClose ==
    /\ ppProd = "close"
    /\ ppProd' = IF ppGzErr # "" THEN "finish" ELSE "flush"
    /\ UNCHANGED <<ppVariant, ppN, ppFailAt, ppPlan, ppCopied, ppErr, ppGzErr,
                   ppFlushed, ppRClosed, ppW, ppGot, ppReadResult, ppClose>>
    /\ UNCHANGED ppOthers

\* The deferred function goes on: close(p.closeErrChan) and
\* p.pipeIn.CloseWithError(err); the goroutine ends.
ProdFinish ==
    /\ ppProd = "finish"
    /\ ppW' = closeWithError(ppErr)
    /\ ppProd' = "done"
    /\ UNCHANGED <<ppVariant, ppN, ppFailAt, ppPlan, ppCopied, ppErr, ppGzErr,
                   ppFlushed, ppRClosed, ppGot, ppReadResult, ppClose>>
    /\ UNCHANGED ppOthers

\* pipe.Read, which ends in p.pipeOut.Read: it takes the data of a Write in
\* progress, or returns what the write end was closed with, or blocks. The
\* select of the earlier Read on copyErrChan, a nil channel, always takes
\* its default.
ConsRead ==
    /\ ppClose = "no"
    /\ ppReadResult = ""
    /\ ppPlan = "all" \/ (ppPlan = "early" /\ ppGot = 0)
    /\ IF ppProd = "write"
       THEN /\ ppGot' = ppGot + 1
            /\ ppCopied' = ppCopied + 1
            /\ ppProd' = "copy"
            /\ UNCHANGED <<ppFlushed, ppReadResult>>
       ELSE IF ppProd = "flush"
       THEN /\ ppGot' = ppGot + 1
            /\ ppFlushed' = TRUE
            /\ ppProd' = "finish"
            /\ UNCHANGED <<ppCopied, ppReadResult>>
       ELSE /\ ppW # "open"
            /\ ppReadResult' = ppW
            /\ UNCHANGED <<ppGot, ppCopied, ppFlushed, ppProd>>
    /\ UNCHANGED <<ppVariant, ppN, ppFailAt, ppPlan, ppErr, ppGzErr, ppRClosed, ppW,
                   ppClose>>
    /\ UNCHANGED ppOthers

\* The consumer calls pipe.Close. Later pipe: p.pipeOut.Close(), then the
\* wait for closeErrChan. Earlier pipe: p.writer.Close() comes first, the
\* Close of the gzip writer, which writes the trailer to the pipe unless a
\* Write failed before; no Read is in progress, and the read end is closed
\* only after that call returns.
ConsClose ==
    /\ ppClose = "no"
    /\ ppPlan = "all" => ppReadResult # ""
    /\ IF ppVariant = "later"
       THEN ppRClosed' = TRUE /\ ppClose' = "wait"
       ELSE IF ppGzErr # ""
       THEN ppRClosed' = TRUE /\ ppClose' = "returned"
       ELSE ppClose' = "writerClose" /\ UNCHANGED ppRClosed
    /\ UNCHANGED <<ppVariant, ppN, ppFailAt, ppPlan, ppProd, ppCopied, ppErr,
                   ppGzErr, ppFlushed, ppW, ppGot, ppReadResult>>
    /\ UNCHANGED ppOthers

\* <-p.closeErrChan returns once the copy goroutine has closed the channel;
\* Close returns p.closeErr.
CloseReturns ==
    /\ ppClose = "wait"
    /\ ppProd = "done"
    /\ ppClose' = "returned"
    /\ UNCHANGED <<ppVariant, ppN, ppFailAt, ppPlan, ppProd, ppCopied, ppErr,
                   ppGzErr, ppFlushed, ppRClosed, ppW, ppGot, ppReadResult>>
    /\ UNCHANGED ppOthers

PpNext ==
    \/ ProdRead
    \/ ProdWriteFails
    \/ ProdModClose
    \/ ProdFinish
    \/ ConsRead
    \/ ConsClose
    \/ CloseReturns

SpecPipe == PpInit /\ [][PpNext]_vars

\* The scheduler runs every goroutine that can take a step.
FairPipe ==
    /\ SpecPipe
    /\ WF_vars(ProdRead)
    /\ WF_vars(ProdWriteFails)
    /\ WF_vars(ProdModClose)
    /\ WF_vars(ProdFinish)
    /\ WF_vars(ConsRead)
    /\ WF_vars(ConsClose)
    /\ WF_vars(CloseReturns)

\* C36: a Read returns end-of-stream only after every chunk of the source
\* was copied and the trailer of the closed compressor was read; and when
\* the source fails while it is copied, a consumer that keeps reading gets
\* that error from Read.
C36_ProducerErrorSurfaces ==
    /\ [](ppReadResult = "eof" => (ppCopied = ppN /\ ppFlushed))
    /\ (ppErr = "src" /\ ppPlan = "all") ~> (ppReadResult = "src")

\* C40: pipe.Close returns and the copy goroutine ends, whether the
\* consumer read to the end, stopped early or never read.
C40_CloseReturnsProducerEnds ==
    <>(ppClose = "returned" /\ ppProd = "done")

====
